---- MODULE Spec2Model ----
(***************************************************************************)
(* ARM64 simulator: the two-pass assembler (simulator_parser.js) and the   *)
(* fetch-decode-execute engine (class ARM64Simulator with I/O callbacks).  *)
(*                                                                         *)
(* A source line is modelled after lexing: the regular expressions of the  *)
(* parser split a trimmed line into an optional "name:" prefix and the     *)
(* remainder, which is empty, a section directive, .global, another        *)
(* directive, or an opcode with operand tokens.  Everything the passes and *)
(* the engine compute from those tokens is modelled as the code does it.   *)
(* Indices are 0-based as in the source; a sequence s is read s[i + 1].    *)
(***************************************************************************)
EXTENDS Integers, Sequences, FiniteSets, TLC

(* ------------------------------ bounds -------------------------------- *)
\* items (an optional label line plus one line) per control-flow source
MaxItems == 3
\* items (one line, or a short run of lines) per assembler source
MaxAsmItems == 3
\* items per source of the reload specification
MaxReloadItems == 2
\* the longest program of the input specification, in items
MaxAsyncItems == 3
\* the longest program of the entry-point specification, in items
MaxEntryItems == 4
\* the longest program of the stack-frame specification, in instructions
MaxPushItems == 4
\* how far above its initial value the stack-frame specification follows sp,
\* in units of 32 bytes
MaxSpRise == 2
\* how many bytes from either end of the heap one-byte allocations are followed
MaxSmallAllocs == 2
\* the most stack frames created since the last reset
MaxFrames == 4
\* the most step() invocations suspended at one time
MaxPending == 2
\* 16-bit limbs that hold one BigInt value (two's complement)
BigLimbs == 6

(* --------------------------- memory layout ---------------------------- *)
RODATA_START == 1048576
RODATA_END == 2097151
DATA_START == 2097152
DATA_END == 3145727
BSS_START == 3145728
BSS_END == 4194303
HEAP_START == 4194304
HEAP_END == 134152191
STACK_START == 134152192
STACK_END == 134217727

memoryLayout ==
  [rodata |-> [start |-> RODATA_START, end |-> RODATA_END, readonly |-> TRUE],
   data   |-> [start |-> DATA_START,   end |-> DATA_END,   readonly |-> FALSE],
   bss    |-> [start |-> BSS_START,    end |-> BSS_END,    readonly |-> FALSE],
   heap   |-> [start |-> HEAP_START,   end |-> HEAP_END,   readonly |-> FALSE],
   stack  |-> [start |-> STACK_START,  end |-> STACK_END,  readonly |-> FALSE]]

\* order of Object.entries(this.memoryLayout)
RegionKeys == <<"rodata", "data", "bss", "heap", "stack">>

\* (STACK_END + 1n) & ~0xFn
initialSp == ((STACK_END + 1) \div 16) * 16

(* ---------------------------- operand model --------------------------- *)
\* an operand token of a source line:
\*   t = "reg": register token, s its spelling ("x30", "w1", "sp", "lr", "pc")
\*   t = "num": numeric literal of value v; a literal of more than 31 bits (an
\*              instruction immediate) carries its value as 16-bit limbs in raw
\*   t = "sym": identifier (a label reference), s its name
\*   t = "str": string literal, raw its characters as codes (92 = backslash)
\*   t = "bad": a token that is none of these
Tok(t, v, s, raw) == [t |-> t, v |-> v, s |-> s, raw |-> raw]
RegTok(name) == Tok("reg", 0, name, <<>>)
NumTok(n) == Tok("num", n, "", <<>>)
BigTok(limbs) == Tok("num", 0, "", limbs)
SymTok(name) == Tok("sym", 0, name, <<>>)
StrTok(raw) == Tok("str", 0, "", raw)
BadTok == Tok("bad", 0, "", <<>>)

\* a trimmed, non-empty source line:
\*   label: "" or the name matched by /^([a-zA-Z_][a-zA-Z0-9_]*)\s*:\s*(.*)$/
\*   kind:  what follows the label: "empty", "section" (.text|.rodata|.data|.bss
\*          alone), "global" (.global names), "directive" (any other token
\*          starting with '.'), "instr" (anything else)
\*   name:  section name, directive name or opcode
\*   args:  operand tokens
Line(label, kind, name, args) ==
  [label |-> label, kind |-> kind, name |-> name, args |-> args]
LabelLine(l) == Line(l, "empty", "", <<>>)
SectionLine(n) == Line("", "section", n, <<>>)
GlobalLine(names) == Line("", "global", "global", [i \in DOMAIN names |-> SymTok(names[i])])
Directive(l, n, args) == Line(l, "directive", n, args)
Instr(l, op, args) == Line(l, "instr", op, args)

XNames ==
  <<"x0", "x1", "x2", "x3", "x4", "x5", "x6", "x7", "x8", "x9", "x10", "x11",
    "x12", "x13", "x14", "x15", "x16", "x17", "x18", "x19", "x20", "x21",
    "x22", "x23", "x24", "x25", "x26", "x27", "x28", "x29", "x30">>
WNames ==
  <<"w0", "w1", "w2", "w3", "w4", "w5", "w6", "w7", "w8", "w9", "w10", "w11",
    "w12", "w13", "w14", "w15", "w16", "w17", "w18", "w19", "w20", "w21",
    "w22", "w23", "w24", "w25", "w26", "w27", "w28", "w29", "w30">>

\* the value null / undefined of the source
NullReg == [type |-> "null", num |-> -1, name |-> ""]
NoLabel == ""

parseRegister(tok) ==
  IF tok.t # "reg" THEN NullReg
  ELSE IF tok.s \in {"sp", "lr", "pc"} THEN [type |-> "special", num |-> -1, name |-> tok.s]
  ELSE IF \E n \in 0..30 : XNames[n + 1] = tok.s
    THEN LET n == CHOOSE n \in 0..30 : XNames[n + 1] = tok.s
         IN [type |-> "x", num |-> n, name |-> tok.s]
  ELSE IF \E n \in 0..30 : WNames[n + 1] = tok.s
    THEN LET n == CHOOSE n \in 0..30 : WNames[n + 1] = tok.s
         IN [type |-> "w", num |-> n, name |-> tok.s]
  ELSE NullReg

(* ------------------------ symbol table (a Map) ------------------------ *)
\* a sequence of entries in insertion order, one per name
SymHas(table, name) == \E i \in DOMAIN table : table[i].name = name
SymGet(table, name) == table[CHOOSE i \in DOMAIN table : table[i].name = name]

sectionCounters0 ==
  [rodata |-> RODATA_START, data |-> DATA_START, bss |-> BSS_START, text |-> 0]

\* (counter + mask) & ~mask for mask = 2^p - 1
RECURSIVE Pow2(_)
Pow2(p) == IF p <= 0 THEN 1 ELSE 2 * Pow2(p - 1)
AlignUp(counter, p) == ((counter + Pow2(p) - 1) \div Pow2(p)) * Pow2(p)

\* parseInt(rest) of a directive operand list: NaN is modelled as -1 with ok FALSE
ParseIntRest(args) ==
  IF Len(args) >= 1 /\ args[1].t = "num" THEN [ok |-> TRUE, v |-> args[1].v]
  ELSE [ok |-> FALSE, v |-> 0]

\* parseInt(rest) || 3
AlignPower(args) ==
  LET p == ParseIntRest(args) IN IF p.ok /\ p.v # 0 THEN p.v ELSE 3

\* the escape-processing loop over a raw string: its length after processing
RECURSIVE ProcessedLength(_, _)
ProcessedLength(raw, i) ==
  IF i > Len(raw) THEN 0
  ELSE IF raw[i] = 92 /\ i + 1 <= Len(raw) THEN 1 + ProcessedLength(raw, i + 2)
  ELSE 1 + ProcessedLength(raw, i + 1)

DataDirectives == {"quad", "word", "hword", "byte", "skip", "align", "asciz", "string"}
DirSize(d) == IF d = "quad" THEN 8 ELSE IF d = "word" THEN 4 ELSE IF d = "hword" THEN 2 ELSE 1

(* --------------------------- pass 1 ----------------------------------- *)
\* the advance of the location counters for the remainder of a line
Pass1Advance(line, sec, ctr) ==
  IF sec = "text" THEN [ctr EXCEPT !.text = @ + 4]
  ELSE IF line.kind = "directive" /\ line.name \in DataDirectives THEN
    IF line.name = "align" THEN [ctr EXCEPT ![sec] = AlignUp(@, AlignPower(line.args))]
    ELSE IF line.name \in {"asciz", "string"} THEN
      IF Len(line.args) >= 1 /\ line.args[1].t = "str"
        THEN [ctr EXCEPT ![sec] = @ + ProcessedLength(line.args[1].raw, 1) + 1]
        ELSE ctr
    ELSE IF line.name \in {"quad", "word", "hword", "byte"}
      THEN [ctr EXCEPT ![sec] = @ + Len(line.args) * DirSize(line.name)]
    ELSE \* skip
      LET n == ParseIntRest(line.args)
      IN IF n.ok /\ n.v > 0 THEN [ctr EXCEPT ![sec] = @ + n.v] ELSE ctr
  ELSE IF ~(line.label = "" /\ line.kind \in {"directive", "global", "section"})
    \* !trimmed.startsWith('.')
    THEN [ctr EXCEPT !.text = @ + 4]
  ELSE ctr

RECURSIVE Pass1(_, _, _, _, _, _)
Pass1(lines, i, table, globals, sec, ctr) ==
  IF i > Len(lines) THEN [err |-> FALSE, symbolTable |-> table, sectionCounters |-> ctr]
  ELSE LET line == lines[i] IN
    IF line.label = "" /\ line.kind = "section"
      THEN Pass1(lines, i + 1, table, globals, line.name, ctr)
    ELSE IF line.label = "" /\ line.kind = "global"
      THEN Pass1(lines, i + 1, table,
                 globals \cup {line.args[k].s : k \in DOMAIN line.args}, sec, ctr)
    ELSE IF line.label # "" /\ SymHas(table, line.label)
      THEN [err |-> TRUE, symbolTable |-> table, sectionCounters |-> ctr]
    ELSE
      LET table2 == IF line.label = "" THEN table
                    ELSE Append(table, [name |-> line.label, address |-> ctr[sec],
                                        section |-> sec,
                                        isGlobal |-> line.label \in globals])
      IN IF line.label # "" /\ line.kind = "empty"
           THEN Pass1(lines, i + 1, table2, globals, sec, ctr)
           ELSE Pass1(lines, i + 1, table2, globals, sec, Pass1Advance(line, sec, ctr))

buildSymbolTable(lines) == Pass1(lines, 1, <<>>, {}, "text", sectionCounters0)

(* ------------------------------ BigInt --------------------------------- *)
\* A BigInt value of the source is held in two's complement as BigLimbs 16-bit
\* limbs, lowest first.  Register values, immediates and the results of the
\* arithmetic handlers are such values; & with a mask of the source keeps the
\* low limbs, which is what & does on a negative BigInt as well.

\* the n lowest 16-bit chunks of an integer, lowest first
RECURSIVE ChunksOf(_, _)
ChunksOf(value, n) ==
  IF n = 0 THEN <<>> ELSE <<value % 65536>> \o ChunksOf(value \div 65536, n - 1)

\* BigInt(n) for an integer literal n of the source
BigInt(n) == ChunksOf(n, BigLimbs)

\* a 64-bit pattern given by its four chunks, lowest first
Big64(c0, c1, c2, c3) ==
  [i \in 1..BigLimbs |-> IF i = 1 THEN c0 ELSE IF i = 2 THEN c1
                         ELSE IF i = 3 THEN c2 ELSE IF i = 4 THEN c3 ELSE 0]

\* a + b
RECURSIVE AddLimbs(_, _, _, _)
AddLimbs(a, b, i, carry) ==
  IF i > Len(a) THEN <<>>
  ELSE <<(a[i] + b[i] + carry) % 65536>>
       \o AddLimbs(a, b, i + 1, (a[i] + b[i] + carry) \div 65536)

BigAdd(a, b) == AddLimbs(a, b, 1, 0)

\* ~a, -a, a - b
BigNot(a) == [i \in DOMAIN a |-> 65535 - a[i]]
BigNeg(a) == BigAdd(BigNot(a), BigInt(1))
BigSub(a, b) == BigAdd(a, BigNeg(b))

\* a < 0n
BigIsNeg(a) == a[Len(a)] >= 32768

\* a < b on the limbs read as unsigned, from the highest limb down
RECURSIVE LimbsLess(_, _, _)
LimbsLess(a, b, i) ==
  IF i = 0 THEN FALSE
  ELSE IF a[i] # b[i] THEN a[i] < b[i]
  ELSE LimbsLess(a, b, i - 1)

\* a < b, a >= b
BigLess(a, b) ==
  IF BigIsNeg(a) # BigIsNeg(b) THEN BigIsNeg(a) ELSE LimbsLess(a, b, Len(a))
BigGeq(a, b) == ~BigLess(a, b)

\* a & 0xFFFFFFFFn (bits = 32), a & 0xFFFFFFFFFFFFFFFFn (bits = 64)
BigMask(a, bits) == [i \in DOMAIN a |-> IF i <= bits \div 16 THEN a[i] ELSE 0]

\* (a & (1n << BigInt(bit))) !== 0n
BigBit(a, bit) == (a[bit \div 16 + 1] \div Pow2(bit % 16)) % 2 = 1

\* a & b, a | b, a ^ b on one 16-bit limb, bit by bit
RECURSIVE Bits16(_, _, _, _)
Bits16(op, x, y, n) ==
  IF n = 0 THEN 0
  ELSE LET bx == x % 2
           by == y % 2
           bit == IF op = "and" THEN bx * by
                  ELSE IF op = "or" THEN (IF bx + by > 0 THEN 1 ELSE 0)
                  ELSE (bx + by) % 2
       IN bit + 2 * Bits16(op, x \div 2, y \div 2, n - 1)

BigAnd(a, b) == [i \in DOMAIN a |-> Bits16("and", a[i], b[i], 16)]
BigOr(a, b) == [i \in DOMAIN a |-> Bits16("or", a[i], b[i], 16)]
BigXor(a, b) == [i \in DOMAIN a |-> Bits16("xor", a[i], b[i], 16)]

\* a << k: the bits above the highest limb are dropped, and every use masks
\* the result to 64 bits or fewer
BigShl(a, k) ==
  LET q == k \div 16
      r == k % 16
      limb(i) == IF i >= 1 THEN a[i] ELSE 0
  IN IF k <= 0 THEN a
     ELSE [i \in DOMAIN a |->
             ((limb(i - q) * Pow2(r)) % 65536) + (limb(i - q - 1) \div Pow2(16 - r))]

\* a >> k, which keeps the sign
BigShr(a, k) ==
  LET q == k \div 16
      r == k % 16
      fill == IF BigIsNeg(a) THEN 65535 ELSE 0
      limb(i) == IF i <= Len(a) THEN a[i] ELSE fill
  IN IF k <= 0 THEN a
     ELSE [i \in DOMAIN a |->
             (limb(i + q) \div Pow2(r)) + ((limb(i + q + 1) % Pow2(r)) * Pow2(16 - r))]

\* lower32 | 0xFFFFFFFF00000000n for a value lower32 below 2^32
SignExtend32(lower32) ==
  [i \in DOMAIN lower32 |-> IF i \in {3, 4} THEN 65535 ELSE lower32[i]]

\* a + (1n << 64n), a - (1n << 64n)
BigPow2x64 == [i \in 1..BigLimbs |-> IF i = 5 THEN 1 ELSE 0]

\* the integer of a value within 0 .. 2^30 - 1; a value below is read as -1,
\* a value above as 2^30, which keeps every comparison with an address of the
\* memory layout or of an instruction
BigToInt(a) ==
  IF BigIsNeg(a) THEN -1
  ELSE IF (\E i \in 3..Len(a) : a[i] # 0) \/ a[2] >= 16384 THEN 1073741824
  ELSE a[1] + 65536 * a[2]

\* parseImmediate(immStr) for a numeric literal
parseImmediate(tok) == IF tok.raw # <<>> THEN tok.raw ELSE BigInt(tok.v)

(* ------------------------- instruction parser -------------------------- *)
ConditionCodes == {"eq", "ne", "lt", "le", "gt", "ge", "lo", "ls", "hi", "hs", "mi", "pl"}
ConditionalBranches ==
  {"beq", "bne", "blt", "ble", "bgt", "bge", "blo", "bls", "bhi", "bhs", "bmi", "bpl"}

\* the record `result` of parseInstruction; an absent field is NullReg, NoLabel
\* or hasImmediate = FALSE
Parsed(op, dest, src, label, hasImm, imm) ==
  [opcode |-> op, dest |-> dest, src |-> src, src1 |-> NullReg, src2 |-> NullReg,
   label |-> label, hasImmediate |-> hasImm, immediate |-> imm,
   base |-> NullReg, offsetReg |-> NullReg, offset |-> BigInt(0), offsetType |-> ""]

\* the record of an instruction with the operands src1 and src2
ParsedAlu(op, dest, src1, src2, hasImm, imm) ==
  [Parsed(op, dest, NullReg, NoLabel, hasImm, imm) EXCEPT !.src1 = src1, !.src2 = src2]

\* the record of ldr (the data register is dest) and str (it is src); an
\* absent offset is BigInt(0), as "parsed.offset || 0n" reads it
ParsedMem(op, reg, base, offsetReg, offset, offsetType) ==
  [Parsed(op, IF op = "ldr" THEN reg ELSE NullReg, IF op = "str" THEN reg ELSE NullReg,
          NoLabel, FALSE, BigInt(0))
   EXCEPT !.base = base, !.offsetReg = offsetReg, !.offset = offset,
          !.offsetType = offsetType]

\* parseRegister(parts[1]) where the part keeps its comma: "sp,", "lr," and
\* "pc," name no register
parseRegisterComma(tok) ==
  IF parseRegister(tok).type = "special" THEN NullReg ELSE parseRegister(tok)

\* parts.slice(k).join(' ').trim() where the remaining part is one label token
LabelOf(args, k) == IF Len(args) >= k /\ args[k].t = "sym" THEN args[k].s ELSE NoLabel

\* parseInstruction(trimmed): [null, err, parsed].  The line is passed whole, so
\* a "name:" prefix is the first whitespace-separated part and becomes the opcode.
parseInstruction(line) ==
  LET none == Parsed("", NullReg, NullReg, NoLabel, FALSE, BigInt(0))
      ok(p) == [null |-> FALSE, err |-> FALSE, parsed |-> p]
      op == line.name
      args == line.args
  IN IF line.label # "" \/ line.kind # "instr"
       THEN [null |-> TRUE, err |-> FALSE, parsed |-> none]
     ELSE IF op = "mov" THEN
       IF Len(args) >= 2 THEN
         \* parts[1] keeps its comma: "sp,", "lr," and "pc," name no register
         LET dest == IF parseRegister(args[1]).type = "special" THEN NullReg
                     ELSE parseRegister(args[1])
         IN IF args[2].t = "num"
              THEN ok(Parsed(op, dest, NullReg, NoLabel, TRUE, parseImmediate(args[2])))
            ELSE IF args[2].t = "bad"
              THEN [null |-> FALSE, err |-> TRUE, parsed |-> none]
            ELSE ok(Parsed(op, dest, parseRegister(args[2]), NoLabel, FALSE, BigInt(0)))
       ELSE ok(Parsed(op, NullReg, NullReg, NoLabel, FALSE, BigInt(0)))
     ELSE IF op \in {"add", "adds", "sub", "subs"} THEN
       IF Len(args) >= 3 THEN
         LET dest == parseRegister(args[1])
             src1 == parseRegister(args[2])
         IN IF args[3].t = "num"
              THEN ok(ParsedAlu(op, dest, src1, NullReg, TRUE, parseImmediate(args[3])))
            ELSE IF args[3].t = "bad"
              THEN [null |-> FALSE, err |-> TRUE, parsed |-> none]
            ELSE ok(ParsedAlu(op, dest, src1, parseRegister(args[3]), FALSE, BigInt(0)))
       ELSE ok(Parsed(op, NullReg, NullReg, NoLabel, FALSE, BigInt(0)))
     ELSE IF op \in {"and", "ands", "orr", "eor", "bic"} THEN
       \* commas are removed before the shifted-register pattern is tried, so
       \* an inline shift is never recognised and parseRegister reads the
       \* register at the front of what remains
       IF Len(args) >= 3 THEN
         LET dest == parseRegister(args[1])
             src1 == parseRegister(args[2])
         IN IF args[3].t = "num"
              THEN ok(ParsedAlu(op, dest, src1, NullReg, TRUE, parseImmediate(args[3])))
            ELSE IF args[3].t = "bad"
              THEN [null |-> FALSE, err |-> TRUE, parsed |-> none]
            ELSE ok(ParsedAlu(op, dest, src1, parseRegister(args[3]), FALSE, BigInt(0)))
       ELSE ok(Parsed(op, NullReg, NullReg, NoLabel, FALSE, BigInt(0)))
     ELSE IF op \in {"lsl", "lsr", "asr", "ror", "mvn"} THEN
       IF Len(args) >= 2 THEN
         LET dest == parseRegister(args[1])
             src1 == parseRegister(args[2])
         IN IF op = "mvn" \/ Len(args) < 3
              THEN ok(ParsedAlu(op, dest, src1, NullReg, FALSE, BigInt(0)))
            ELSE IF args[3].t = "num"
              THEN ok(ParsedAlu(op, dest, src1, NullReg, TRUE, parseImmediate(args[3])))
            ELSE IF args[3].t = "bad"
              THEN [null |-> FALSE, err |-> TRUE, parsed |-> none]
            ELSE ok(ParsedAlu(op, dest, src1, parseRegister(args[3]), FALSE, BigInt(0)))
       ELSE ok(Parsed(op, NullReg, NullReg, NoLabel, FALSE, BigInt(0)))
     ELSE IF op \in {"ldr", "str"} THEN
       \* args: the data register, then what stands between the brackets: the
       \* base, then an offset (#imm or a register); what follows a register
       \* offset (", lsl #s") is split off at the comma and not looked at
       IF Len(args) >= 2 THEN
         LET reg == parseRegisterComma(args[1])
             base == parseRegister(args[2])
         IN IF Len(args) = 2
              THEN ok(ParsedMem(op, reg, base, NullReg, BigInt(0), "immediate"))
            ELSE IF args[3].t = "num"
              THEN ok(ParsedMem(op, reg, base, NullReg, parseImmediate(args[3]), "immediate"))
            ELSE IF args[3].t = "bad"
              THEN [null |-> FALSE, err |-> TRUE, parsed |-> none]
            ELSE IF parseRegister(args[3]) # NullReg
              THEN ok(ParsedMem(op, reg, base, parseRegister(args[3]), BigInt(0), "register"))
            ELSE ok(ParsedMem(op, reg, base, NullReg, BigInt(0), ""))
       ELSE ok(Parsed(op, NullReg, NullReg, NoLabel, FALSE, BigInt(0)))
     ELSE IF op \in {"adr", "adrp"} THEN
       IF Len(args) >= 2
         THEN ok(Parsed(op, parseRegisterComma(args[1]), NullReg, LabelOf(args, 2), FALSE,
                        BigInt(0)))
         ELSE ok(Parsed(op, NullReg, NullReg, NoLabel, FALSE, BigInt(0)))
     ELSE IF op \in {"cmp", "cmn"} THEN
       IF Len(args) >= 2 THEN
         LET src1 == parseRegister(args[1])
         IN IF args[2].t = "num"
              THEN ok(ParsedAlu(op, NullReg, src1, NullReg, TRUE, parseImmediate(args[2])))
            ELSE IF args[2].t = "bad"
              THEN [null |-> FALSE, err |-> TRUE, parsed |-> none]
            ELSE ok(ParsedAlu(op, NullReg, src1, parseRegister(args[2]), FALSE, BigInt(0)))
       ELSE [null |-> FALSE, err |-> TRUE, parsed |-> none]
     ELSE IF op \in {"b", "bl"} \cup ConditionalBranches THEN
       ok(Parsed(op, NullReg, NullReg, LabelOf(args, 1), FALSE, BigInt(0)))
     ELSE IF op \in {"cbz", "cbnz"} THEN
       IF Len(args) >= 2
         THEN ok(Parsed(op, NullReg, parseRegister(args[1]), LabelOf(args, 2), FALSE, BigInt(0)))
         ELSE ok(Parsed(op, NullReg, NullReg, NoLabel, FALSE, BigInt(0)))
     ELSE IF op = "ret" THEN ok(Parsed(op, NullReg, NullReg, NoLabel, FALSE, BigInt(0)))
     ELSE [null |-> TRUE, err |-> FALSE, parsed |-> none]

(* --------------------------- pass 2 ----------------------------------- *)
\* parseValue(valueStr, symbolTable)
parseValue(tok, table) ==
  IF tok.t = "num" THEN [err |-> FALSE, value |-> tok.v]
  ELSE IF tok.t = "sym" /\ SymHas(table, tok.s)
    THEN [err |-> FALSE, value |-> SymGet(table, tok.s).address]
  ELSE [err |-> TRUE, value |-> 0]

\* the escape-processing loop of pass 2: the processed characters
RECURSIVE ProcessedStr(_, _)
ProcessedStr(raw, i) ==
  IF i > Len(raw) THEN <<>>
  ELSE IF raw[i] = 92 /\ i + 1 <= Len(raw) THEN
    LET c == raw[i + 1]
        v == IF c = 110 THEN 10 ELSE IF c = 116 THEN 9 ELSE IF c = 48 THEN 0 ELSE c
    IN <<v>> \o ProcessedStr(raw, i + 2)
  ELSE <<raw[i]>> \o ProcessedStr(raw, i + 1)

DataInit(address, value, size, section, ln) ==
  [address |-> address, value |-> value, size |-> size, section |-> section, line |-> ln]

\* the data initialisations of one quad/word/hword/byte directive, value by value
RECURSIVE EmitValues(_, _, _, _, _, _, _)
EmitValues(args, k, size, sec, ctr, table, ln) ==
  IF k > Len(args) THEN [err |-> FALSE, inits |-> <<>>, ctr |-> ctr]
  ELSE LET v == parseValue(args[k], table) IN
    IF v.err THEN [err |-> TRUE, inits |-> <<>>, ctr |-> ctr]
    ELSE LET rest == EmitValues(args, k + 1, size, sec, [ctr EXCEPT ![sec] = @ + size], table, ln)
         IN [err |-> rest.err,
             inits |-> <<DataInit(ctr[sec], v.value, size, sec, ln)>> \o rest.inits,
             ctr |-> rest.ctr]

\* what one directive line adds in pass 2: [err, inits, ctr]
Pass2Directive(line, sec, ctr, table, ln) ==
  LET same == [err |-> FALSE, inits |-> <<>>, ctr |-> ctr] IN
  IF ~(line.kind = "global" \/ (line.kind = "directive" /\ line.name \in DataDirectives))
    THEN same
  ELSE IF line.kind = "global" THEN same
  ELSE IF line.name = "align"
    THEN [same EXCEPT !.ctr = [ctr EXCEPT ![sec] = AlignUp(@, AlignPower(line.args))]]
  ELSE IF line.name \in {"asciz", "string"} THEN
    IF Len(line.args) >= 1 /\ line.args[1].t = "str" THEN
      LET str == ProcessedStr(line.args[1].raw, 1) \o <<0>>
      IN [err |-> FALSE,
          inits |-> [k \in 1..Len(str) |-> DataInit(ctr[sec] + k - 1, str[k], 1, sec, ln)],
          ctr |-> [ctr EXCEPT ![sec] = @ + Len(str)]]
    ELSE [same EXCEPT !.err = TRUE]
  ELSE IF line.name \in {"quad", "word", "hword", "byte"}
    THEN EmitValues(line.args, 1, DirSize(line.name), sec, ctr, table, ln)
  ELSE \* skip
    LET n == ParseIntRest(line.args) IN
    IF n.ok /\ n.v > 0
      THEN [err |-> FALSE,
            inits |-> IF sec = "bss" THEN <<DataInit(ctr[sec], 0, n.v, sec, ln)>> ELSE <<>>,
            ctr |-> [ctr EXCEPT ![sec] = @ + n.v]]
      ELSE same

RECURSIVE Pass2(_, _, _, _, _, _, _)
Pass2(lines, i, table, sec, ctr, instrs, inits) ==
  IF i > Len(lines)
    THEN [err |-> FALSE, instructions |-> instrs, dataInitializations |-> inits]
  ELSE LET line == lines[i] IN
    IF line.label = "" /\ line.kind = "section"
      THEN Pass2(lines, i + 1, table, line.name, ctr, instrs, inits)
    ELSE IF line.kind \in {"directive", "global", "section"} THEN
      \* lineAfterLabel.startsWith('.')
      LET d == Pass2Directive(line, sec, ctr, table, i - 1) IN
      IF d.err THEN [err |-> TRUE, instructions |-> instrs, dataInitializations |-> inits]
      ELSE Pass2(lines, i + 1, table, sec, d.ctr, instrs, inits \o d.inits)
    ELSE IF sec = "text" THEN
      LET p == parseInstruction(line) IN
      IF p.err THEN [err |-> TRUE, instructions |-> instrs, dataInitializations |-> inits]
      ELSE IF p.null THEN Pass2(lines, i + 1, table, sec, ctr, instrs, inits)
      ELSE Pass2(lines, i + 1, table, sec, [ctr EXCEPT !.text = @ + 4],
                 Append(instrs, [line |-> i - 1, address |-> ctr.text, parsed |-> p.parsed]),
                 inits)
    ELSE Pass2(lines, i + 1, table, sec, ctr, instrs, inits)

parseProgram(lines, table) == Pass2(lines, 1, table, "text", sectionCounters0, <<>>, <<>>)

(* ------------------------------ engine --------------------------------- *)
VARIABLES
  registers,                \* this.registers: name -> value
  flags,                    \* this.flags: [N, Z, C, V]
  memory,                   \* this.memory: address -> byte, for the addresses set
  symbolTable,              \* this.symbolTable
  instructions,             \* this.instructions
  currentInstructionIndex,  \* this.currentInstructionIndex
  entryPointAddress,        \* this.entryPointAddress
  entryPointLabel,          \* this.entryPointLabel (NoLabel for null)
  entryFunctionEndIndex,    \* this.entryFunctionEndIndex
  stackFrames,              \* this.stackFrames: [id, sp, size, top] records
  nextFrameId,              \* this.nextFrameId
  heapPtr,                  \* this.heapPtr
  source,                   \* the lines last handed to loadProgram
  loadResult,               \* how the last loadProgram ended: "none", "ok", "error"
  stepResult,               \* how the last step ended: "none", "continue", "halt", "error"
  lastIndex,                \* the cursor at the start of the last step, -1 if none
  before,                   \* registers, flags, memory, cursor and stepResult
                            \* at the start of the last step
  suspended                 \* the step() invocations suspended at the await of the
                            \* input source: the locals bufPtr and returnAddress

vars ==
  <<registers, flags, memory, symbolTable, instructions, currentInstructionIndex,
    entryPointAddress, entryPointLabel, entryFunctionEndIndex, stackFrames, nextFrameId,
    heapPtr, source, loadResult, stepResult, lastIndex, before, suspended>>

RegisterNames == {XNames[i] : i \in DOMAIN XNames} \cup {"sp", "pc"}

\* the engine object as one value
Engine ==
  [registers |-> registers, flags |-> flags, memory |-> memory,
   symbolTable |-> symbolTable, instructions |-> instructions,
   currentInstructionIndex |-> currentInstructionIndex,
   entryPointAddress |-> entryPointAddress, entryPointLabel |-> entryPointLabel,
   entryFunctionEndIndex |-> entryFunctionEndIndex,
   stackFrames |-> stackFrames, nextFrameId |-> nextFrameId, heapPtr |-> heapPtr]

\* the fields reset() assigns
ResetEngine ==
  [registers |-> [r \in RegisterNames |-> IF r = "sp" THEN BigInt(initialSp) ELSE BigInt(0)],
   flags |-> [N |-> FALSE, Z |-> FALSE, C |-> FALSE, V |-> FALSE],
   memory |-> <<>>,
   symbolTable |-> <<>>, instructions |-> <<>>,
   currentInstructionIndex |-> 0,
   entryPointAddress |-> 0, entryPointLabel |-> NoLabel,
   entryFunctionEndIndex |-> -1,
   stackFrames |-> <<>>, nextFrameId |-> 1, heapPtr |-> BigInt(HEAP_START)]

NoBefore ==
  [registers |-> ResetEngine.registers, flags |-> ResetEngine.flags,
   memory |-> ResetEngine.memory, cursor |-> 0, result |-> "none"]

\* findInstructionIndexByAddress(address) over this.instructions
RECURSIVE FindFrom(_, _, _)
FindFrom(instrs, addr, i) ==
  IF i >= Len(instrs) THEN 0
  ELSE IF BigInt(instrs[i + 1].address) = addr THEN i
  ELSE IF BigLess(addr, BigInt(instrs[i + 1].address)) THEN (IF i > 0 THEN i - 1 ELSE 0)
  ELSE FindFrom(instrs, addr, i + 1)

findInstructionIndexByAddress(instrs, address) == FindFrom(instrs, address, 0)

(* ------------------------------ memory --------------------------------- *)
\* getMemoryRegion(address): the key of the region, "" for null
getMemoryRegion(address) ==
  IF \E k \in DOMAIN RegionKeys :
       address >= memoryLayout[RegionKeys[k]].start /\ address <= memoryLayout[RegionKeys[k]].end
    THEN RegionKeys[CHOOSE k \in DOMAIN RegionKeys :
           address >= memoryLayout[RegionKeys[k]].start /\ address <= memoryLayout[RegionKeys[k]].end]
    ELSE ""

\* the validation without the check that the last byte lies in the region of
\* the first
validateMemoryAccessThrowsFirstByte(sp, addr, size, isWrite) ==
  LET region == getMemoryRegion(addr) IN
  \/ addr = 0 \/ (addr < RODATA_START /\ addr > 0)
  \/ addr < RODATA_START \/ addr + (size - 1) > STACK_END
  \/ region = ""
  \/ (isWrite /\ memoryLayout[region].readonly)
  \/ /\ isWrite
     /\ sp < STACK_END /\ sp >= STACK_START
     /\ addr >= HEAP_START /\ addr <= HEAP_END
     /\ sp < HEAP_END
  \/ /\ isWrite
     /\ addr >= HEAP_START /\ addr <= HEAP_END
     /\ sp < HEAP_END /\ sp >= STACK_START

\* validateMemoryAccess(address, size, isWrite): TRUE when it throws
validateMemoryAccessThrows(sp, addr, size, isWrite) ==
  LET region == getMemoryRegion(addr) IN
  \/ addr = 0 \/ (addr < RODATA_START /\ addr > 0)
  \/ addr < RODATA_START \/ addr + (size - 1) > STACK_END
  \/ region = ""
  \/ addr + (size - 1) > memoryLayout[region].end
  \/ (isWrite /\ memoryLayout[region].readonly)
  \/ /\ isWrite
     /\ sp < STACK_END /\ sp >= STACK_START
     /\ addr >= HEAP_START /\ addr <= HEAP_END
     /\ sp < HEAP_END
  \/ /\ isWrite
     /\ addr >= HEAP_START /\ addr <= HEAP_END
     /\ sp < HEAP_END /\ sp >= STACK_START

\* the checks of writeMemory when skipReadonlyCheck is set: TRUE when it throws
initWriteThrows(addr, size) ==
  LET region == getMemoryRegion(addr) IN
  \/ addr = 0 \/ (addr < RODATA_START /\ addr > 0)
  \/ addr < RODATA_START \/ addr + (size - 1) > STACK_END
  \/ region = ""
  \/ addr + (size - 1) > memoryLayout[region].end

\* Number((value >> BigInt(i * 8)) & 0xFFn)
ByteOf(value, i) == (value[i \div 2 + 1] \div (IF i % 2 = 1 THEN 256 ELSE 1)) % 256

\* the byte loop of writeMemory
StoreBytes(mem, addr, value, size) ==
  [a \in (DOMAIN mem) \cup (addr..(addr + size - 1)) |->
     IF a >= addr /\ a <= addr + size - 1 THEN ByteOf(value, a - addr) ELSE mem[a]]

\* writeMemory with the read-only check skipped whatever the caller asks
writeMemoryAsInit(mem, sp, address, value, size, skipReadonlyCheck) ==
  IF initWriteThrows(address, size)
    THEN [err |-> TRUE, memory |-> mem]
    ELSE [err |-> FALSE, memory |-> StoreBytes(mem, address, value, size)]

\* writeMemory(address, value, size, skipReadonlyCheck): [err, memory]
writeMemory(mem, sp, address, value, size, skipReadonlyCheck) ==
  IF (IF skipReadonlyCheck THEN initWriteThrows(address, size)
      ELSE validateMemoryAccessThrows(sp, address, size, TRUE))
    THEN [err |-> TRUE, memory |-> mem]
    ELSE [err |-> FALSE, memory |-> StoreBytes(mem, address, value, size)]

\* this.memory.get(addr) || 0
MemoryByte(mem, a) == IF a \in DOMAIN mem THEN mem[a] ELSE 0

\* readMemory(address, size): [err, value]; a 4-byte value with bit 31 set is
\* sign-extended to 64 bits
readMemory(mem, sp, address, size) ==
  IF validateMemoryAccessThrows(sp, address, size, FALSE)
    THEN [err |-> TRUE, value |-> BigInt(0)]
    ELSE LET value == [i \in 1..BigLimbs |->
                         IF 2 * i <= size
                           THEN MemoryByte(mem, address + 2 * i - 2)
                                + 256 * MemoryByte(mem, address + 2 * i - 1)
                         ELSE IF 2 * i - 1 <= size THEN MemoryByte(mem, address + 2 * i - 2)
                         ELSE 0]
         IN [err |-> FALSE,
             value |-> IF size = 4 /\ BigBit(value, 31) THEN SignExtend32(value) ELSE value]

\* initializeMemoryRegions(dataInitializations): writes in order until one throws
RECURSIVE initializeMemoryRegions(_, _, _, _)
initializeMemoryRegions(mem, sp, inits, k) ==
  IF k > Len(inits) THEN [err |-> FALSE, memory |-> mem]
  ELSE LET w == writeMemory(mem, sp, inits[k].address, BigInt(inits[k].value),
                            inits[k].size, TRUE)
       IN IF w.err THEN w ELSE initializeMemoryRegions(w.memory, sp, inits, k + 1)

(* ---------------------------- loadProgram ------------------------------ *)
\* the first index i (0-based) whose instruction is at the address (exact) or
\* at or after it, -1 if none
FirstAt(instrs, addr, exact) ==
  LET hit(i) == IF exact THEN instrs[i].address = addr ELSE instrs[i].address >= addr
  IN IF \E i \in DOMAIN instrs : hit(i)
       THEN (CHOOSE i \in DOMAIN instrs : hit(i) /\ \A j \in DOMAIN instrs : hit(j) => i <= j) - 1
       ELSE -1

\* the entry label: a global _start, else a global main, else _start, else main
EntryLabelOf(table) ==
  IF \E i \in DOMAIN table : table[i].isGlobal /\ table[i].name = "_start" THEN "_start"
  ELSE IF \E i \in DOMAIN table : table[i].isGlobal /\ table[i].name = "main" THEN "main"
  ELSE IF SymHas(table, "_start") THEN "_start"
  ELSE IF SymHas(table, "main") THEN "main"
  ELSE NoLabel

\* the cursor and entry point loadProgram settles on: [index, entryPoint]
EntryOf(table, instrs) ==
  LET entryLabel == EntryLabelOf(table)
      entryPoint0 ==
        IF entryLabel # NoLabel THEN SymGet(table, entryLabel).address
        ELSE IF Len(instrs) > 0 THEN instrs[1].address ELSE 0
      found0 ==
        IF entryLabel # NoLabel /\ SymHas(table, entryLabel)
          THEN IF FirstAt(instrs, entryPoint0, TRUE) # -1 THEN FirstAt(instrs, entryPoint0, TRUE)
               ELSE FirstAt(instrs, entryPoint0, FALSE)
          ELSE FirstAt(instrs, entryPoint0, FALSE)
      foundIndex == IF found0 = -1 /\ Len(instrs) > 0 THEN 0 ELSE found0
  IN IF foundIndex >= 0 /\ foundIndex < Len(instrs)
       THEN [index |-> foundIndex, entryPoint |-> instrs[foundIndex + 1].address]
       ELSE [index |-> 0, entryPoint |-> entryPoint0]

\* the end of the entry function: the index of the first text label, in symbol
\* table order, that lies after the entry point and maps to a later instruction
EntryFunctionEnd(table, instrs, entryLabel, entryPoint) ==
  IF entryLabel = NoLabel THEN Len(instrs)
  ELSE
    LET entryPointIndex == findInstructionIndexByAddress(instrs, BigInt(entryPoint))
        next(i) == /\ table[i].name # entryLabel
                   /\ table[i].section = "text"
                   /\ table[i].address > entryPoint
                   /\ findInstructionIndexByAddress(instrs, BigInt(table[i].address)) > entryPointIndex
    IN IF \E i \in DOMAIN table : next(i)
         THEN findInstructionIndexByAddress(instrs,
                BigInt(table[CHOOSE i \in DOMAIN table : next(i) /\ \A j \in DOMAIN table : next(j) => i <= j].address))
         ELSE Len(instrs)

\* loadProgram(assemblyCode) on engine e: [err, e].  A throw leaves the fields
\* assigned before it.
loadProgram(e, lines) ==
  LET p1 == buildSymbolTable(lines) IN
  IF p1.err THEN [err |-> TRUE, e |-> e]
  ELSE
    LET e1 == [e EXCEPT !.symbolTable = p1.symbolTable]
        p2 == parseProgram(lines, p1.symbolTable)
    IN IF p2.err THEN [err |-> TRUE, e |-> e1]
    ELSE
      LET e2 == [e1 EXCEPT !.instructions = p2.instructions]
          w == initializeMemoryRegions(e2.memory, BigToInt(e2.registers["sp"]), p2.dataInitializations, 1)
          e3 == [e2 EXCEPT !.memory = w.memory]
      IN IF w.err THEN [err |-> TRUE, e |-> e3]
      ELSE
        LET entry == EntryOf(p1.symbolTable, p2.instructions)
            entryLabel == EntryLabelOf(p1.symbolTable)
        IN [err |-> FALSE,
            e |-> [e3 EXCEPT
                     !.currentInstructionIndex = entry.index,
                     !.registers = [@ EXCEPT !["pc"] = BigInt(entry.entryPoint)],
                     !.entryPointAddress = entry.entryPoint,
                     !.entryPointLabel = entryLabel,
                     !.entryFunctionEndIndex =
                        EntryFunctionEnd(p1.symbolTable, p2.instructions, entryLabel,
                                         entry.entryPoint)]]

(* ---------------------------- registers -------------------------------- *)
\* a read of the w view that extends with zeros
getRegisterValueZeroExtended(regs, reg) ==
  IF reg.type = "special" THEN (IF reg.name = "lr" THEN regs["x30"] ELSE regs[reg.name])
  ELSE IF reg.type = "x" THEN regs[reg.name]
  ELSE IF reg.type = "w" THEN BigMask(regs[XNames[reg.num + 1]], 32)
  ELSE BigInt(0)

getRegisterValue(regs, reg) ==
  IF reg.type = "special" THEN (IF reg.name = "lr" THEN regs["x30"] ELSE regs[reg.name])
  ELSE IF reg.type = "x" THEN regs[reg.name]
  ELSE IF reg.type = "w" THEN
    LET xValue == regs[XNames[reg.num + 1]]
        lower32 == BigMask(xValue, 32)
    IN IF BigBit(lower32, 31) THEN SignExtend32(lower32) ELSE lower32
  ELSE BigInt(0)

\* a write through the w view that keeps the upper 32 bits of the value
setRegisterValueUnmasked(regs, reg, value) ==
  IF reg.type = "special"
    THEN (IF reg.name = "lr" THEN [regs EXCEPT !["x30"] = value]
          ELSE [regs EXCEPT ![reg.name] = value])
  ELSE IF reg.type = "x" THEN [regs EXCEPT ![reg.name] = value]
  ELSE IF reg.type = "w" THEN [regs EXCEPT ![XNames[reg.num + 1]] = value]
  ELSE regs

setRegisterValue(regs, reg, value) ==
  IF reg.type = "special"
    THEN (IF reg.name = "lr" THEN [regs EXCEPT !["x30"] = value]
          ELSE [regs EXCEPT ![reg.name] = value])
  ELSE IF reg.type = "x" THEN [regs EXCEPT ![reg.name] = value]
  ELSE IF reg.type = "w" THEN [regs EXCEPT ![XNames[reg.num + 1]] = BigMask(value, 32)]
  ELSE regs

X30 == [type |-> "x", num |-> 30, name |-> "x30"]

(* ------------------------------- mov ----------------------------------- *)
\* the encodability test without the isValidMovn check: any complement of one
\* 16-bit chunk is accepted
isMovImmediateEncodableAnyMovn(value, is64Bit) ==
  LET c == SubSeq(value, 1, IF is64Bit THEN 4 ELSE 2)
      notc == [k \in DOMAIN c |-> 65535 - c[k]]
      movz == \E k \in DOMAIN c :
                /\ \A j \in DOMAIN c : j # k => c[j] = 0
                /\ c[k] <= 65535 /\ c[k] > 0
      movn == \E k \in DOMAIN c :
                /\ \A j \in DOMAIN c : j # k => notc[j] = 0
                /\ notc[k] <= 65535 /\ notc[k] > 0
  IN movz \/ movn

\* isMovImmediateEncodable(value, is64Bit) on the 16-bit chunks of
\* value & mask: four for 64 bits, two for 32
isMovImmediateEncodable(value, is64Bit) ==
  LET c == SubSeq(value, 1, IF is64Bit THEN 4 ELSE 2)
      notc == [k \in DOMAIN c |-> 65535 - c[k]]
      movz == \E k \in DOMAIN c :
                /\ \A j \in DOMAIN c : j # k => c[j] = 0
                /\ c[k] <= 65535 /\ c[k] > 0
      movn == \E k \in DOMAIN c :
                /\ \A j \in DOMAIN c : j # k => notc[j] = 0
                /\ notc[k] <= 65535 /\ notc[k] > 0
                \* isValidMovn: the chunk at the shift is all ones or has all of
                \* its 16 bits clear; every other chunk is all ones
                /\ c[k] = 65535 \/ c[k] = 0
                /\ \A j \in DOMAIN c : j # k => c[j] = 65535
  IN movz \/ movn

\* an executeXxx returns [e, pcModified, halt, err, await]; await is set when
\* the handler is suspended at "await this.ioCallbacks.inputSync('')"
Done(e) == [e |-> e, pcModified |-> FALSE, halt |-> FALSE, err |-> FALSE, await |-> FALSE]
Jumped(e) == [e |-> e, pcModified |-> TRUE, halt |-> FALSE, err |-> FALSE, await |-> FALSE]
Halted(e) == [e |-> e, pcModified |-> FALSE, halt |-> TRUE, err |-> FALSE, await |-> FALSE]
Thrown(e) == [e |-> e, pcModified |-> FALSE, halt |-> FALSE, err |-> TRUE, await |-> FALSE]
Awaiting(e) == [e |-> e, pcModified |-> FALSE, halt |-> FALSE, err |-> FALSE, await |-> TRUE]

executeMov(e, parsed) ==
  IF parsed.dest = NullReg THEN Done(e)
  ELSE IF parsed.hasImmediate THEN
    LET is64Bit == parsed.dest.type # "w"
        value == BigMask(parsed.immediate, IF is64Bit THEN 64 ELSE 32)
    IN IF ~isMovImmediateEncodable(value, is64Bit) THEN Thrown(e)
       ELSE Done([e EXCEPT !.registers = setRegisterValue(@, parsed.dest, value)])
  ELSE IF parsed.src # NullReg THEN
    Done([e EXCEPT !.registers =
            setRegisterValue(@, parsed.dest, getRegisterValue(e.registers, parsed.src))])
  ELSE Done(e)

(* ----------------------------- arithmetic ------------------------------ *)
\* typeof destReg === 'string' && destReg === 'sp'
IsStackOp(dest) == dest.type = "special" /\ dest.name = "sp"

\* an alignment check of 8 bytes instead of 16
MisalignedBy8(value) == value[1] % 8 # 0

\* value % 16n !== 0n
Misaligned(value) == value[1] % 16 # 0

\* val1 and val2 of an instruction with two operands, read once
Operands(e, parsed) ==
  <<getRegisterValue(e.registers, parsed.src1),
    IF parsed.hasImmediate THEN parsed.immediate
    ELSE getRegisterValue(e.registers, parsed.src2)>>

\* Number(value) of a BigInt
NumberOf(value) == IF BigIsNeg(value) THEN 0 - BigToInt(BigNeg(value)) ELSE BigToInt(value)

\* frames.sort((a, b) => b.sp - a.sp): by sp, highest first, equal ones in
\* their old order
RECURSIVE SortFrames(_)
SortFrames(frames) ==
  IF frames = <<>> THEN <<>>
  ELSE LET top == CHOOSE i \in DOMAIN frames :
                    /\ \A j \in DOMAIN frames : frames[j].sp <= frames[i].sp
                    /\ \A j \in 1..(i - 1) : frames[j].sp < frames[i].sp
       IN <<frames[top]>>
          \o SortFrames([j \in 1..(Len(frames) - 1) |->
                           IF j < top THEN frames[j] ELSE frames[j + 1]])

\* createStackFrame(newSP, size)
createStackFrame(e, newSP, size) ==
  LET frame == [id |-> e.nextFrameId, sp |-> newSP, size |-> size, top |-> newSP + size]
  IN [e EXCEPT !.nextFrameId = @ + 1, !.stackFrames = SortFrames(Append(@, frame))]

\* destroyStackFrame(newSP, size)
destroyStackFrame(e, newSP, size) ==
  LET frameToFree == newSP - size
      matches == {i \in DOMAIN e.stackFrames :
                    e.stackFrames[i].sp = frameToFree /\ e.stackFrames[i].size = size}
      frameIndex == CHOOSE i \in matches : \A j \in matches : i <= j
      sorted == SortFrames(e.stackFrames)
  IN IF matches # {}
       THEN [e EXCEPT !.stackFrames = [j \in 1..(Len(@) - 1) |->
                                         IF j < frameIndex THEN @[j] ELSE @[j + 1]]]
     ELSE IF sorted # <<>> THEN [e EXCEPT !.stackFrames = Tail(sorted)]
     ELSE e

\* executeAdd(parsed)
AddOf(e, parsed, val1, val2, result) ==
  IF IsStackOp(parsed.dest) /\ (Misaligned(val2) \/ Misaligned(result))
    THEN Thrown(e)
  ELSE IF IsStackOp(parsed.dest)
    THEN Done(destroyStackFrame([e EXCEPT !.registers = setRegisterValue(@, parsed.dest, result)],
                                NumberOf(result), NumberOf(val2)))
    ELSE Done([e EXCEPT !.registers = setRegisterValue(@, parsed.dest, result)])

executeAdd(e, parsed) ==
  IF parsed.dest = NullReg \/ parsed.src1 = NullReg THEN Thrown(e)
  ELSE IF ~parsed.hasImmediate /\ parsed.src2 = NullReg THEN Done(e)
  ELSE CHOOSE r \in {AddOf(e, parsed, v[1], v[2], BigAdd(v[1], v[2])) :
                      v \in {Operands(e, parsed)}} : TRUE

\* updateFlags(result, size)
updateFlags(fl, result, size) ==
  [fl EXCEPT !.N = BigBit(result, size - 1), !.Z = BigMask(result, size) = BigInt(0)]

\* executeSub(parsed, setFlags)
\* a subtraction that sets the flags whether or not it was asked to
SubOfSetFlags(e, parsed, setFlags, val1, val2, result) ==
  LET size == IF parsed.dest.type = "w" THEN 32 ELSE 64
      e1 == [e EXCEPT !.registers = setRegisterValue(@, parsed.dest, result)]
  IN IF IsStackOp(parsed.dest) THEN
       IF Misaligned(val2) \/ Misaligned(result) \/ BigIsNeg(result) THEN Thrown(e)
       ELSE Done(createStackFrame(e1, NumberOf(result), NumberOf(val2)))
     ELSE Done([e1 EXCEPT !.flags = updateFlags(@, result, size)])

SubOf(e, parsed, setFlags, val1, val2, result) ==
  LET size == IF parsed.dest.type = "w" THEN 32 ELSE 64
      e1 == [e EXCEPT !.registers = setRegisterValue(@, parsed.dest, result)]
  IN IF IsStackOp(parsed.dest) THEN
       IF Misaligned(val2) \/ Misaligned(result) \/ BigIsNeg(result) THEN Thrown(e)
       ELSE Done(createStackFrame(e1, NumberOf(result), NumberOf(val2)))
     ELSE IF setFlags THEN Done([e1 EXCEPT !.flags = updateFlags(@, result, size)])
     ELSE Done(e1)

executeSub(e, parsed, setFlags) ==
  IF parsed.dest = NullReg \/ parsed.src1 = NullReg THEN Thrown(e)
  ELSE IF ~parsed.hasImmediate /\ parsed.src2 = NullReg THEN Thrown(e)
  ELSE CHOOSE r \in {SubOf(e, parsed, setFlags, v[1], v[2], BigSub(v[1], v[2])) :
                      v \in {Operands(e, parsed)}} : TRUE

\* executeArithmeticWithFlags(parsed, operation, writeResult): adds, subs, cmp, cmn
\* the flags and the register write, from the masked operands, the result and
\* the unmasked sum or difference newSP
FlagsOf(e, parsed, operation, writeResult, size, val2, maskedVal1, maskedVal2, newSP, result) ==
  LET signBit == size - 1
      isStackOp == writeResult /\ parsed.dest # NullReg /\ IsStackOp(parsed.dest)
      regs == IF ~(writeResult /\ parsed.dest # NullReg) THEN e.registers
              ELSE IF isStackOp THEN setRegisterValue(e.registers, parsed.dest, newSP)
              ELSE setRegisterValue(e.registers, parsed.dest, result)
      val1Negative == BigBit(maskedVal1, signBit)
      val2Negative == BigBit(maskedVal2, signBit)
      resultNegative == BigBit(result, signBit)
      fl == [N |-> resultNegative,
             Z |-> BigMask(result, size) = BigInt(0),
             C |-> IF operation = "add" THEN BigLess(result, maskedVal1)
                   ELSE BigGeq(maskedVal1, maskedVal2),
             V |-> IF operation = "add"
                     THEN (val1Negative = val2Negative) /\ (resultNegative # val1Negative)
                     ELSE (val1Negative # val2Negative) /\ (resultNegative # val1Negative)]
  IN IF isStackOp /\ (Misaligned(val2) \/ Misaligned(newSP)
                      \/ (operation = "sub" /\ BigIsNeg(newSP)))
       THEN Thrown(e)
     ELSE IF isStackOp
       THEN LET e1 == [e EXCEPT !.registers = regs, !.flags = fl]
            IN Done(IF operation = "add"
                      THEN destroyStackFrame(e1, NumberOf(newSP), NumberOf(val2))
                      ELSE createStackFrame(e1, NumberOf(newSP), NumberOf(val2)))
     ELSE Done([e EXCEPT !.registers = regs, !.flags = fl])

\* the operands masked to the size, their sum or difference masked to the
\* size, and the sum or difference of the unmasked operands
ArithmeticOf(e, parsed, operation, writeResult, size, val1, val2) ==
  CHOOSE r \in
    {FlagsOf(e, parsed, operation, writeResult, size, val2, m[1], m[2], m[3],
             IF writeResult /\ parsed.dest # NullReg /\ IsStackOp(parsed.dest)
               THEN BigMask(m[3], size) ELSE BigMask(m[4], size)) :
       m \in {<<BigMask(val1, size), BigMask(val2, size),
                IF operation = "add" THEN BigAdd(val1, val2) ELSE BigSub(val1, val2),
                IF operation = "add" THEN BigAdd(BigMask(val1, size), BigMask(val2, size))
                ELSE BigSub(BigMask(val1, size), BigMask(val2, size))>>}} : TRUE

executeArithmeticWithFlags(e, parsed, operation, writeResult) ==
  IF parsed.src1 = NullReg THEN Thrown(e)
  ELSE IF ~parsed.hasImmediate /\ parsed.src2 = NullReg THEN Thrown(e)
  ELSE CHOOSE r \in
         {ArithmeticOf(e, parsed, operation, writeResult,
                       IF parsed.src1.type = "w" THEN 32 ELSE 64, v[1], v[2]) :
            v \in {Operands(e, parsed)}} : TRUE

(* ------------------------- logical and shifts -------------------------- *)
\* executeLogical(parsed, opcode): and, ands, orr, eor, bic
LogicalOf(e, parsed, opcode, size, result) ==
  LET e1 == [e EXCEPT !.registers = setRegisterValue(@, parsed.dest, result)]
  IN IF opcode = "ands"
       THEN Done([e1 EXCEPT !.flags = [@ EXCEPT !.N = BigBit(result, size - 1),
                                                !.Z = BigMask(result, size) = BigInt(0)]])
       ELSE Done(e1)

LogicalResult(opcode, size, val1, val2) ==
  CASE opcode \in {"and", "ands"} -> BigMask(BigAnd(val1, val2), size)
    [] opcode = "orr" -> BigMask(BigOr(val1, val2), size)
    [] opcode = "eor" -> BigMask(BigXor(val1, val2), size)
    [] OTHER -> BigMask(BigAnd(val1, BigNot(val2)), size)

executeLogical(e, parsed, opcode) ==
  IF parsed.dest = NullReg \/ parsed.src1 = NullReg THEN Thrown(e)
  ELSE IF ~parsed.hasImmediate /\ parsed.src2 = NullReg THEN Thrown(e)
  ELSE CHOOSE r \in
         {LogicalOf(e, parsed, opcode, IF parsed.dest.type = "w" THEN 32 ELSE 64, result) :
            result \in {LogicalResult(opcode, IF parsed.dest.type = "w" THEN 32 ELSE 64,
                                      Operands(e, parsed)[1], Operands(e, parsed)[2])}} : TRUE

\* executeShift(parsed, opcode): lsl, lsr, asr, ror, mvn; shift amounts are
\* taken within 0 .. 2^31 - 1
\* the sign-extended value of asr: signedVal | ~mask when the sign bit is set
SignedVal(masked, size) ==
  IF BigBit(masked, size - 1) THEN BigOr(masked, BigNot(BigMask(BigInt(-1), size)))
  ELSE masked

\* the lower bits that ror moves to the top
LowerBits(val1, rotateAmount) ==
  CHOOSE r \in {BigAnd(val1, BigSub(p, BigInt(1))) : p \in {BigShl(BigInt(1), rotateAmount)}} :
    TRUE

RorResult(shifted, lowerBits, size, rotateAmount) ==
  BigMask(BigOr(shifted, BigShl(lowerBits, size - rotateAmount)), size)

ShiftResult(opcode, size, val1, masked, shiftAmount) ==
  IF opcode = "mvn" THEN BigMask(BigNot(val1), size)
  ELSE IF shiftAmount = 0 THEN masked
  ELSE CASE opcode = "lsl" -> BigMask(BigShl(val1, shiftAmount), size)
         [] opcode = "lsr" -> BigMask(BigShr(val1, shiftAmount), size)
         [] opcode = "asr" ->
              CHOOSE r \in {BigMask(BigShr(sv, shiftAmount), size) :
                              sv \in {SignedVal(masked, size)}} : TRUE
         [] OTHER ->
              IF shiftAmount % size = 0 THEN masked
              ELSE CHOOSE r \in
                     {RorResult(w[1], w[2], size, shiftAmount % size) :
                        w \in {<<BigShr(val1, shiftAmount % size),
                                 LowerBits(val1, shiftAmount % size)>>}} : TRUE

executeShift(e, parsed, opcode) ==
  IF parsed.dest = NullReg \/ parsed.src1 = NullReg THEN Thrown(e)
  ELSE IF opcode # "mvn" /\ ~parsed.hasImmediate /\ parsed.src2 = NullReg THEN Thrown(e)
  ELSE
    LET size == IF parsed.dest.type = "w" THEN 32 ELSE 64
        shiftAmount == IF opcode = "mvn" THEN 0
                       ELSE IF parsed.hasImmediate THEN BigToInt(parsed.immediate)
                       ELSE getRegisterValue(e.registers, parsed.src2)[1] % size
    IN CHOOSE r \in
         {Done([e EXCEPT !.registers = setRegisterValue(@, parsed.dest, result)]) :
            result \in {CHOOSE x \in {ShiftResult(opcode, size, val1, BigMask(val1, size),
                                                  shiftAmount) :
                                        val1 \in {getRegisterValue(e.registers, parsed.src1)}} :
                          TRUE}} : TRUE

(* --------------------------- loads and stores -------------------------- *)
\* labelInfo.address of a label of the symbol table
LabelAddress(e, label) == BigInt(SymGet(e.symbolTable, label).address)

\* the effective address of ldr and str
EffectiveAddress(e, parsed) ==
  BigAdd(getRegisterValue(e.registers, parsed.base),
         IF parsed.offsetType = "register" THEN getRegisterValue(e.registers, parsed.offsetReg)
         ELSE parsed.offset)

\* executeStr(parsed)
executeStr(e, parsed) ==
  IF parsed.src = NullReg \/ parsed.base = NullReg THEN Done(e)
  ELSE
    LET value == getRegisterValue(e.registers, parsed.src)
        size == IF parsed.src.type = "w" THEN 4 ELSE 8
        w == writeMemory(e.memory, BigToInt(e.registers["sp"]),
                         BigToInt(EffectiveAddress(e, parsed)), value, size, FALSE)
    IN IF w.err THEN Thrown(e) ELSE Done([e EXCEPT !.memory = w.memory])

\* executeLdr(parsed)
executeLdr(e, parsed) ==
  IF parsed.dest = NullReg \/ parsed.base = NullReg THEN Done(e)
  ELSE
    LET size == IF parsed.dest.type = "w" THEN 4 ELSE 8
        r == readMemory(e.memory, BigToInt(e.registers["sp"]),
                        BigToInt(EffectiveAddress(e, parsed)), size)
    IN IF r.err THEN Thrown(e)
       ELSE Done([e EXCEPT !.registers = setRegisterValue(@, parsed.dest, r.value)])

\* labelAddr < 0x00100000n && labelAddr > 0n
InZeroPage(address) == BigLess(address, BigInt(RODATA_START)) /\ BigLess(BigInt(0), address)

\* executeAdr(parsed, instructionAddress)
executeAdr(e, parsed) ==
  IF parsed.dest = NullReg \/ parsed.label = NoLabel THEN Thrown(e)
  ELSE IF ~SymHas(e.symbolTable, parsed.label) THEN Thrown(e)
  ELSE IF InZeroPage(LabelAddress(e, parsed.label)) THEN Thrown(e)
  ELSE Done([e EXCEPT !.registers =
               setRegisterValue(@, parsed.dest, LabelAddress(e, parsed.label))])

\* executeAdrp(parsed, instructionAddress)
executeAdrp(e, parsed) ==
  IF parsed.dest = NullReg \/ parsed.label = NoLabel THEN Thrown(e)
  ELSE IF ~SymHas(e.symbolTable, parsed.label) THEN Thrown(e)
  ELSE LET result == BigAnd(LabelAddress(e, parsed.label), BigNot(BigInt(4095)))
       IN IF InZeroPage(result) THEN Thrown(e)
          ELSE Done([e EXCEPT !.registers = setRegisterValue(@, parsed.dest, result)])

(* ----------------------------- branches -------------------------------- *)
\* pc = labelInfo.address; cursor = findInstructionIndexByAddress(pc)
JumpTo(e, address) ==
  [e EXCEPT !.registers = [@ EXCEPT !["pc"] = address],
            !.currentInstructionIndex = findInstructionIndexByAddress(e.instructions, address)]

executeB(e, parsed) ==
  IF parsed.label = NoLabel THEN Thrown(e)
  ELSE IF ~SymHas(e.symbolTable, parsed.label) THEN Thrown(e)
  ELSE Jumped(JumpTo(e, LabelAddress(e, parsed.label)))

\* the conditions with "lt" read from the sign of the difference alone
conditionMetSignOnly(f, condition) ==
  CASE condition = "eq" -> f.Z
    [] condition = "ne" -> ~f.Z
    [] condition = "lt" -> f.N
    [] condition = "le" -> f.Z \/ (f.N # f.V)
    [] condition = "gt" -> ~f.Z /\ (f.N = f.V)
    [] condition = "ge" -> f.N = f.V
    [] condition = "lo" -> ~f.C
    [] condition = "ls" -> ~f.C \/ f.Z
    [] condition = "hi" -> f.C /\ ~f.Z
    [] condition = "hs" -> f.C
    [] condition = "mi" -> f.N
    [] condition = "pl" -> ~f.N

conditionMet(f, condition) ==
  CASE condition = "eq" -> f.Z
    [] condition = "ne" -> ~f.Z
    [] condition = "lt" -> f.N # f.V
    [] condition = "le" -> f.Z \/ (f.N # f.V)
    [] condition = "gt" -> ~f.Z /\ (f.N = f.V)
    [] condition = "ge" -> f.N = f.V
    [] condition = "lo" -> ~f.C
    [] condition = "ls" -> ~f.C \/ f.Z
    [] condition = "hi" -> f.C /\ ~f.Z
    [] condition = "hs" -> f.C
    [] condition = "mi" -> f.N
    [] condition = "pl" -> ~f.N

\* opcode.substring(1)
ConditionOf(opcode) ==
  CASE opcode = "beq" -> "eq" [] opcode = "bne" -> "ne" [] opcode = "blt" -> "lt"
    [] opcode = "ble" -> "le" [] opcode = "bgt" -> "gt" [] opcode = "bge" -> "ge"
    [] opcode = "blo" -> "lo" [] opcode = "bls" -> "ls" [] opcode = "bhi" -> "hi"
    [] opcode = "bhs" -> "hs" [] opcode = "bmi" -> "mi" [] opcode = "bpl" -> "pl"

executeConditionalBranch(e, parsed, opcode) ==
  IF parsed.label = NoLabel THEN Thrown(e)
  ELSE IF conditionMet(e.flags, ConditionOf(opcode)) THEN
    IF ~SymHas(e.symbolTable, parsed.label) THEN Thrown(e)
    ELSE Jumped(JumpTo(e, LabelAddress(e, parsed.label)))
  ELSE Done(e)

executeCbz(e, parsed, opcode) ==
  IF parsed.src = NullReg \/ parsed.label = NoLabel THEN Thrown(e)
  ELSE
    LET isZero == getRegisterValue(e.registers, parsed.src) = BigInt(0)
        shouldBranch == (opcode = "cbz" /\ isZero) \/ (opcode = "cbnz" /\ ~isZero)
    IN IF shouldBranch THEN
         IF ~SymHas(e.symbolTable, parsed.label) THEN Thrown(e)
         ELSE Jumped(JumpTo(e, LabelAddress(e, parsed.label)))
       ELSE Done(e)

builtInFunctions == {"printf", "puts", "putchar", "scanf", "gets", "fgets", "getchar"}

\* executeBl with the return address taken to be the address of the bl itself
executeBlNoAdvance(e, parsed) ==
  IF parsed.label = NoLabel THEN Thrown(e)
  ELSE IF ~SymHas(e.symbolTable, parsed.label) THEN Thrown(e)
  ELSE
    LET returnAddress == e.registers["pc"]
        e1 == [e EXCEPT !.registers = setRegisterValue(@, X30, returnAddress)]
    IN Jumped(JumpTo(e1, LabelAddress(e, parsed.label)))

\* executeBl with register 30 written before the label is looked up, as the
\* built-in path does
executeBlLinkFirst(e, parsed) ==
  IF parsed.label = NoLabel THEN Thrown(e)
  ELSE
    LET returnAddress == BigAdd(e.registers["pc"], BigInt(4))
        e1 == [e EXCEPT !.registers = setRegisterValue(@, X30, returnAddress)]
    IN IF ~SymHas(e.symbolTable, parsed.label) THEN Thrown(e1)
       ELSE Jumped(JumpTo(e1, LabelAddress(e, parsed.label)))

\* readString(address): TRUE when a read throws before a zero byte is found
RECURSIVE readStringThrows(_, _, _)
readStringThrows(mem, sp, a) ==
  IF validateMemoryAccessThrows(sp, a, 1, FALSE) THEN TRUE
  ELSE IF MemoryByte(mem, a) = 0 THEN FALSE
  ELSE readStringThrows(mem, sp, a + 1)

\* executeBl.  Of the built-in functions the model has putchar and puts, which
\* only produce output, and gets and fgets: with a null buffer (for fgets also
\* with a size of 0) they return at once, otherwise they are suspended at the
\* await of the input source with register 30 and pc already written.  The
\* sources of the model call no other built-in function.
executeBl(e, parsed) ==
  IF parsed.label = NoLabel THEN Thrown(e)
  ELSE IF parsed.label \in builtInFunctions THEN
    LET returnAddress == BigAdd(e.registers["pc"], BigInt(4))
        e1 == [e EXCEPT !.registers = setRegisterValue(@, X30, returnAddress)]
        x0 == e1.registers["x0"]
    IN IF parsed.label = "putchar" THEN Jumped(JumpTo(e1, returnAddress))
       ELSE IF parsed.label = "puts" THEN
         IF x0 # BigInt(0)
            /\ readStringThrows(e1.memory, BigToInt(e1.registers["sp"]), BigToInt(x0))
           THEN Thrown(e1)
           ELSE Jumped(JumpTo(e1, returnAddress))
       ELSE IF parsed.label \notin {"gets", "fgets"} THEN Thrown(e1)
       ELSE IF x0 = BigInt(0) \/ (parsed.label = "fgets" /\ e1.registers["x1"] = BigInt(0))
         THEN Jumped(JumpTo([e1 EXCEPT !.registers = [@ EXCEPT !["x0"] = BigInt(0)]],
                            returnAddress))
       ELSE Awaiting(e1)
  ELSE IF ~SymHas(e.symbolTable, parsed.label) THEN Thrown(e)
  ELSE
    LET returnAddress == BigAdd(e.registers["pc"], BigInt(4))
        e1 == [e EXCEPT !.registers = setRegisterValue(@, X30, returnAddress)]
    IN Jumped(JumpTo(e1, LabelAddress(e, parsed.label)))

\* executeRet with the return address consulted before the entry-function check
executeRetLinkFirst(e, parsed) ==
  LET currentInstructionAddr == e.registers["pc"]
      currentIndex == findInstructionIndexByAddress(e.instructions, currentInstructionAddr)
      entryPointIndex == findInstructionIndexByAddress(e.instructions, BigInt(e.entryPointAddress))
      halt == Halted([e EXCEPT !.registers = [@ EXCEPT !["pc"] = BigInt(0)]])
      retAddr == IF parsed.src # NullReg THEN getRegisterValue(e.registers, parsed.src)
                 ELSE getRegisterValue(e.registers, X30)
      instructionIndex == findInstructionIndexByAddress(e.instructions, retAddr)
  IN IF retAddr = BigInt(0) \/ BigLess(retAddr, BigInt(0)) THEN halt
     ELSE IF instructionIndex < 0 \/ instructionIndex >= Len(e.instructions) THEN halt
     ELSE Jumped([e EXCEPT !.registers = [@ EXCEPT !["pc"] = retAddr],
                           !.currentInstructionIndex = instructionIndex])

executeRet(e, parsed) ==
  LET currentInstructionAddr == e.registers["pc"]
      currentIndex == findInstructionIndexByAddress(e.instructions, currentInstructionAddr)
      entryPointIndex == findInstructionIndexByAddress(e.instructions, BigInt(e.entryPointAddress))
      halt == Halted([e EXCEPT !.registers = [@ EXCEPT !["pc"] = BigInt(0)]])
      retAddr == IF parsed.src # NullReg THEN getRegisterValue(e.registers, parsed.src)
                 ELSE getRegisterValue(e.registers, X30)
      instructionIndex == findInstructionIndexByAddress(e.instructions, retAddr)
  IN IF /\ e.entryPointLabel # NoLabel /\ e.entryPointAddress >= 0
        /\ currentIndex >= entryPointIndex
        /\ currentIndex < e.entryFunctionEndIndex
        /\ BigGeq(currentInstructionAddr, BigInt(e.entryPointAddress))
       THEN halt
     ELSE IF retAddr = BigInt(0) \/ BigLess(retAddr, BigInt(0)) THEN halt
     ELSE IF instructionIndex < 0 \/ instructionIndex >= Len(e.instructions) THEN halt
     ELSE Jumped([e EXCEPT !.registers = [@ EXCEPT !["pc"] = retAddr],
                           !.currentInstructionIndex = instructionIndex])

(* ----------------------- executeInstruction, step ---------------------- *)
\* executeInstruction(instruction): [e, ret, err], ret the value returned
executeInstruction(e, instruction) ==
  LET parsed == instruction.parsed
      opcode == parsed.opcode
      instructionAddress == IF instruction.address # 0 THEN BigInt(instruction.address)
                            ELSE e.registers["pc"]
      r == CASE opcode = "mov" -> executeMov(e, parsed)
             [] opcode = "add" -> executeAdd(e, parsed)
             [] opcode = "adds" -> executeArithmeticWithFlags(e, parsed, "add", TRUE)
             [] opcode = "sub" -> executeSub(e, parsed, FALSE)
             [] opcode = "subs" -> executeArithmeticWithFlags(e, parsed, "sub", TRUE)
             [] opcode = "cmp" -> executeArithmeticWithFlags(e, parsed, "sub", FALSE)
             [] opcode = "cmn" -> executeArithmeticWithFlags(e, parsed, "add", FALSE)
             [] opcode = "str" -> executeStr(e, parsed)
             [] opcode = "ldr" -> executeLdr(e, parsed)
             [] opcode = "adr" -> executeAdr(e, parsed)
             [] opcode = "adrp" -> executeAdrp(e, parsed)
             [] opcode \in {"and", "ands", "orr", "eor", "bic"} ->
                  executeLogical(e, parsed, opcode)
             [] opcode \in {"lsl", "lsr", "asr", "ror", "mvn"} ->
                  executeShift(e, parsed, opcode)
             [] opcode = "b" -> executeB(e, parsed)
             [] opcode = "bl" -> executeBl(e, parsed)
             [] opcode = "ret" -> executeRet(e, parsed)
             [] opcode \in {"cbz", "cbnz"} -> executeCbz(e, parsed, opcode)
             [] opcode \in ConditionalBranches -> executeConditionalBranch(e, parsed, opcode)
             [] OTHER -> Thrown(e)
  IN IF r.err THEN [e |-> r.e, ret |-> FALSE, err |-> TRUE, await |-> FALSE]
     ELSE IF r.await THEN [e |-> r.e, ret |-> FALSE, err |-> FALSE, await |-> TRUE]
     ELSE IF r.halt THEN [e |-> r.e, ret |-> FALSE, err |-> FALSE, await |-> FALSE]
     ELSE IF ~r.pcModified THEN
       [e |-> JumpTo(r.e, BigAdd(instructionAddress, BigInt(4))), ret |-> TRUE, err |-> FALSE,
        await |-> FALSE]
     ELSE [e |-> r.e, ret |-> TRUE, err |-> FALSE, await |-> FALSE]

\* what step() does once executeInstruction has returned
stepOutcome(x) ==
  IF x.err THEN [e |-> x.e, result |-> "error"]
  ELSE IF ~x.ret THEN [e |-> x.e, result |-> "halt"]
  ELSE IF x.e.currentInstructionIndex >= Len(x.e.instructions)
    THEN [e |-> x.e, result |-> "halt"]
  ELSE IF x.e.registers["pc"] = BigInt(0) THEN [e |-> x.e, result |-> "halt"]
  ELSE [e |-> x.e, result |-> "continue"]

\* step(): [e, result] with result "continue" (true), "halt" (false), "error"
\* (throw), or "pending" when the invocation is suspended awaiting input
step(e) ==
  IF e.currentInstructionIndex >= Len(e.instructions) THEN [e |-> e, result |-> "halt"]
  ELSE
    LET instruction == e.instructions[e.currentInstructionIndex + 1]
        instructionAddress == IF instruction.address # 0 THEN instruction.address
                              ELSE e.currentInstructionIndex * 4
        e1 == [e EXCEPT !.registers = [@ EXCEPT !["pc"] = BigInt(instructionAddress)]]
        x == executeInstruction(e1, instruction)
    IN IF x.await THEN [e |-> x.e, result |-> "pending"] ELSE stepOutcome(x)

(* ------------------------------ sources -------------------------------- *)
SeqsUpTo(S, n) == UNION {[1..k -> S] : k \in 1..n}

RECURSIVE Flatten(_)
Flatten(items) == IF items = <<>> THEN <<>> ELSE Head(items) \o Flatten(Tail(items))

\* control-flow programs: "main" is the entry label, "f" a function label, "u"
\* a label that no line defines, "foo" an opcode the parser does not know
ControlItems ==
  { <<Instr("", "ret", <<>>)>>,
    <<LabelLine("f"), Instr("", "ret", <<>>)>>,
    <<LabelLine("main"), Instr("", "ret", <<>>)>>,
    <<Instr("main", "ret", <<>>)>>,
    <<Instr("", "bl", <<SymTok("f")>>)>>,
    <<LabelLine("main"), Instr("", "bl", <<SymTok("f")>>)>>,
    <<Instr("", "b", <<SymTok("f")>>)>>,
    <<LabelLine("f"), Instr("", "mov", <<RegTok("x0"), RegTok("x30")>>)>>,
    <<Instr("", "mov", <<RegTok("x30"), RegTok("x0")>>)>>,
    <<Instr("", "cbz", <<RegTok("x0"), SymTok("u")>>)>>,
    <<Instr("", "cbnz", <<RegTok("x0"), SymTok("f")>>)>>,
    <<Instr("", "bne", <<SymTok("u")>>)>>,
    <<Instr("", "beq", <<SymTok("u")>>)>>,
    <<Instr("", "b", <<SymTok("u")>>)>>,
    <<Instr("", "bl", <<SymTok("u")>>)>>,
    <<Instr("", "foo", <<>>)>> }

ControlSources == {Flatten(items) : items \in SeqsUpTo(ControlItems, MaxItems)}

(* ------------------------------ actions -------------------------------- *)
SetEngine(e) ==
  /\ registers' = e.registers
  /\ flags' = e.flags
  /\ memory' = e.memory
  /\ symbolTable' = e.symbolTable
  /\ instructions' = e.instructions
  /\ currentInstructionIndex' = e.currentInstructionIndex
  /\ entryPointAddress' = e.entryPointAddress
  /\ entryPointLabel' = e.entryPointLabel
  /\ entryFunctionEndIndex' = e.entryFunctionEndIndex
  /\ stackFrames' = e.stackFrames
  /\ nextFrameId' = e.nextFrameId
  /\ heapPtr' = e.heapPtr

\* new ARM64Simulator()
Init ==
  /\ registers = ResetEngine.registers
  /\ flags = ResetEngine.flags
  /\ memory = ResetEngine.memory
  /\ symbolTable = ResetEngine.symbolTable
  /\ instructions = ResetEngine.instructions
  /\ currentInstructionIndex = ResetEngine.currentInstructionIndex
  /\ entryPointAddress = ResetEngine.entryPointAddress
  /\ entryPointLabel = ResetEngine.entryPointLabel
  /\ entryFunctionEndIndex = ResetEngine.entryFunctionEndIndex
  /\ stackFrames = ResetEngine.stackFrames
  /\ nextFrameId = ResetEngine.nextFrameId
  /\ heapPtr = ResetEngine.heapPtr
  /\ source = <<>>
  /\ loadResult = "none"
  /\ stepResult = "none"
  /\ lastIndex = -1
  /\ before = NoBefore
  /\ suspended = <<>>

\* reset()
Reset ==
  /\ SetEngine(ResetEngine)
  /\ source' = <<>>
  /\ loadResult' = "none"
  /\ stepResult' = "none"
  /\ lastIndex' = -1
  /\ before' = NoBefore
  /\ UNCHANGED suspended

\* loadProgram(lines)
Load(lines) ==
  \E r \in {loadProgram(Engine, lines)} :
  /\ SetEngine(r.e)
  /\ source' = lines
  /\ loadResult' = IF r.err THEN "error" ELSE "ok"
  /\ stepResult' = "none"
  /\ lastIndex' = -1
  /\ before' = NoBefore
  /\ UNCHANGED suspended

\* step()
Step ==
  \E r \in {step(Engine)} :
  /\ r.result = "pending" => Len(suspended) < MaxPending
  /\ r.e.nextFrameId <= MaxFrames + 1
  /\ SetEngine(r.e)
  /\ stepResult' = r.result
  /\ lastIndex' = currentInstructionIndex
  /\ before' = [registers |-> registers, flags |-> flags, memory |-> memory,
                 cursor |-> currentInstructionIndex, result |-> stepResult]
  /\ suspended' = IF r.result = "pending"
                    THEN Append(suspended,
                                [bufPtr |-> r.e.registers["x0"],
                                 returnAddress |-> r.e.registers["x30"],
                                 funcName |-> instructions[currentInstructionIndex + 1].parsed.label,
                                 size |-> r.e.registers["x1"]])
                    ELSE suspended
  /\ UNCHANGED <<source, loadResult>>

\* whether loadProgram has been called since construction or the last reset
Fresh == loadResult = "none"

\* the life cycle create -> load -> step* -> reset
LoadControl == Fresh /\ \E lines \in ControlSources : Load(lines)
StepLoaded == ~Fresh /\ Step
ResetLoaded == ~Fresh /\ Reset

Next == LoadControl \/ StepLoaded \/ ResetLoaded

Spec == Init /\ [][Next]_vars

(* --------------------------- observations ------------------------------ *)
\* the last step executed an instruction (it did not stop at its first check)
Executed == stepResult # "none" /\ lastIndex >= 0 /\ lastIndex < Len(instructions)
LastInstr == instructions[lastIndex + 1]
LastParsed == LastInstr.parsed
LastOpcode == LastParsed.opcode

BranchOpcodes == {"b", "bl", "cbz", "cbnz"} \cup ConditionalBranches

\* the handler of the instruction redirects control flow from registers r, flags f
Redirects(parsed, r, f) ==
  \/ parsed.opcode \in {"b", "bl", "ret"}
  \/ /\ parsed.opcode = "cbz" /\ parsed.src # NullReg
     /\ getRegisterValue(r, parsed.src) = BigInt(0)
  \/ /\ parsed.opcode = "cbnz" /\ parsed.src # NullReg
     /\ getRegisterValue(r, parsed.src) # BigInt(0)
  \/ /\ parsed.opcode \in ConditionalBranches
     /\ conditionMet(f, ConditionOf(parsed.opcode))

HasInstrAt(address) ==
  \E i \in DOMAIN instructions : BigInt(instructions[i].address) = address
IndexAt(address) ==
  (CHOOSE i \in DOMAIN instructions : BigInt(instructions[i].address) = address) - 1

\* the recorded entry-function range: from the instruction at the entry point
\* up to entryFunctionEndIndex
InEntryRange(i) ==
  /\ entryPointLabel # NoLabel
  /\ HasInstrAt(BigInt(entryPointAddress))
  /\ i >= IndexAt(BigInt(entryPointAddress))
  /\ i < entryFunctionEndIndex

GeneralRegisters(r) == [i \in DOMAIN XNames |-> r[XNames[i]]]

(* ------------------------------ claims --------------------------------- *)
\* C1: a step that executes the instruction with the highest address, when that
\* instruction does not redirect control flow, reports halt and leaves the
\* cursor at or beyond the end of the instruction list.
C1_FallOffEndHalts ==
  (/\ Executed
   /\ stepResult # "error"
   /\ lastIndex = Len(instructions) - 1
   /\ ~Redirects(LastParsed, before.registers, before.flags))
  => (stepResult = "halt" /\ currentInstructionIndex >= Len(instructions))

\* C2: once a step has reported halt, every later step reports halt and changes
\* no general register, flag or memory byte.
C2_HaltIsTerminal ==
  (before.result = "halt" /\ stepResult # "none")
  => /\ stepResult = "halt"
     /\ GeneralRegisters(registers) = GeneralRegisters(before.registers)
     /\ flags = before.flags
     /\ memory = before.memory

\* C3: after a step that reports continue, the instruction designated by the
\* cursor is the instruction whose address equals pc.
C3_CursorMatchesPc ==
  stepResult = "continue"
  => /\ currentInstructionIndex < Len(instructions)
     /\ BigInt(instructions[currentInstructionIndex + 1].address) = registers["pc"]

\* C4: a step that reports halt leaves pc = 0 and the cursor at or beyond the
\* end of the instruction list.
C4_HaltState ==
  (stepResult = "halt" /\ loadResult = "ok")
  => (registers["pc"] = BigInt(0) /\ currentInstructionIndex >= Len(instructions))

\* C5: with an entry label, a ret executed at a cursor inside the recorded
\* entry-function range reports halt and sets pc to 0, whatever register 30 holds.
C5_RetInEntryHalts ==
  (Executed /\ LastOpcode = "ret" /\ InEntryRange(lastIndex))
  => (stepResult = "halt" /\ registers["pc"] = BigInt(0))

\* C5 witness: such a ret halted while register 30 still held the return
\* address written by an earlier bl, the address of an instruction.
C5_Witness ==
  /\ Executed /\ LastOpcode = "ret" /\ InEntryRange(lastIndex)
  /\ stepResult = "halt"
  /\ before.registers["x30"] # BigInt(0)
  /\ HasInstrAt(before.registers["x30"])
  /\ HasInstrAt(BigSub(before.registers["x30"], BigInt(4)))
  /\ instructions[IndexAt(BigSub(before.registers["x30"], BigInt(4))) + 1].parsed.opcode = "bl"

\* C6: a ret executed outside the entry function whose return address is zero,
\* negative or not the address of any instruction reports halt.
C6_InvalidReturnHalts ==
  (/\ Executed /\ LastOpcode = "ret" /\ ~InEntryRange(lastIndex)
   /\ \/ BigGeq(BigInt(0), before.registers["x30"])
      \/ ~HasInstrAt(before.registers["x30"]))
  => stepResult = "halt"

\* C7: bl to a defined label at instruction address A writes A + 4 into register
\* 30, sets pc to the label's address and the cursor to the instruction at that
\* address; a ret outside the entry function whose register 30 holds the
\* return address of a bl resumes at the instruction that follows that bl.
C7_BlLinksAndRetReturns ==
  /\ (/\ Executed /\ LastOpcode = "bl"
      /\ LastParsed.label \notin builtInFunctions
      /\ SymHas(symbolTable, LastParsed.label))
     => LET target == BigInt(SymGet(symbolTable, LastParsed.label).address) IN
        /\ stepResult # "error"
        /\ registers["x30"] = BigInt(LastInstr.address + 4)
        /\ registers["pc"] = target
        /\ HasInstrAt(target) => currentInstructionIndex = IndexAt(target)
  /\ \A k \in 0..(Len(instructions) - 2) :
       (/\ Executed /\ LastOpcode = "ret" /\ ~InEntryRange(lastIndex)
        /\ instructions[k + 1].parsed.opcode = "bl"
        /\ before.registers["x30"] = BigInt(instructions[k + 1].address + 4))
       => /\ stepResult = "continue"
          /\ currentInstructionIndex = k + 1
          /\ registers["pc"] = before.registers["x30"]
          /\ registers["x30"] = before.registers["x30"]

\* C7 witness: a ret outside the entry function has resumed after the bl whose
\* return address register 30 held.
C7_Witness ==
  /\ Executed /\ LastOpcode = "ret" /\ ~InEntryRange(lastIndex)
  /\ stepResult = "continue"
  /\ HasInstrAt(BigSub(registers["pc"], BigInt(4)))
  /\ instructions[IndexAt(BigSub(registers["pc"], BigInt(4))) + 1].parsed.opcode = "bl"
  /\ currentInstructionIndex = IndexAt(BigSub(registers["pc"], BigInt(4))) + 1
  /\ before.registers["x30"] = registers["pc"]

\* the last step executed a branch whose target label is not in the symbol table
UndefinedTarget ==
  /\ Executed /\ LastOpcode \in BranchOpcodes
  /\ LastParsed.label # NoLabel
  /\ LastParsed.label \notin builtInFunctions
  /\ ~SymHas(symbolTable, LastParsed.label)

\* C8 as stated: every b, bl, cbz, cbnz or conditional branch whose target label
\* is not in the symbol table fails, and the failing step changes neither
\* register 30 nor the cursor.
C8_UndefinedLabelAlwaysFails ==
  UndefinedTarget
  => /\ stepResult = "error"
     /\ registers["x30"] = before.registers["x30"]
     /\ currentInstructionIndex = before.cursor

\* C8 amended: b, bl, and a cbz, cbnz or conditional branch whose condition
\* holds, fail when the target label is not in the symbol table; the failing
\* step changes neither register 30 nor the cursor and leaves pc at the
\* failing instruction; a cbz, cbnz or conditional branch whose condition does
\* not hold falls through without error.
C8_TakenUndefinedLabelFails ==
  UndefinedTarget
  => IF Redirects(LastParsed, before.registers, before.flags)
       THEN /\ stepResult = "error"
            /\ registers["x30"] = before.registers["x30"]
            /\ currentInstructionIndex = before.cursor
            /\ registers["pc"] = BigInt(LastInstr.address)
       ELSE /\ stepResult # "error"
            /\ registers["pc"] = BigInt(LastInstr.address + 4)

\* C8 witness: a bl to an undefined label failed while register 30 held a
\* return address.
C8_Witness ==
  /\ UndefinedTarget /\ LastOpcode = "bl"
  /\ stepResult = "error"
  /\ before.registers["x30"] # BigInt(0)

(* ----------------------- assembler specification ----------------------- *)
\* sources for the two passes: lines that pass 2 drops or sizes differently
\* from pass 1, between labels and the items they should name
AsmItems ==
  { <<Instr("", "ret", <<>>)>>,
    <<Instr("", "foo", <<>>)>>,
    <<LabelLine("f")>>,
    <<LabelLine("g")>>,
    <<Instr("f", "ret", <<>>)>>,
    <<Directive("", "type", <<SymTok("f")>>)>>,
    <<Directive("", "skip", <<NumTok(4)>>)>>,
    <<Directive("", "skip", <<NumTok(8)>>)>>,
    <<SectionLine("data"), Directive("", "quad", <<NumTok(1)>>), SectionLine("text")>>,
    <<SectionLine("data"), Directive("g", "quad", <<NumTok(1)>>), SectionLine("text")>>,
    <<SectionLine("data"), Instr("", "ret", <<>>), SectionLine("text")>>,
    <<SectionLine("bss"), LabelLine("g"), Directive("", "skip", <<NumTok(8)>>),
      SectionLine("text")>> }

AsmSources == {Flatten(items) : items \in SeqsUpTo(AsmItems, MaxAsmItems)}

LoadAsm == Fresh /\ \E lines \in AsmSources : Load(lines)

NextAsm == LoadAsm \/ ResetLoaded

SpecAsm == Init /\ [][NextAsm]_vars

\* the items pass 2 emits for the loaded source, each with the 0-based line it
\* comes from, its section and its address
EmittedItems ==
  {[line |-> instructions[i].line, section |-> "text", address |-> instructions[i].address]
     : i \in DOMAIN instructions}
  \cup
  LET inits == parseProgram(source, symbolTable).dataInitializations
  IN {[line |-> inits[k].line, section |-> inits[k].section, address |-> inits[k].address]
        : k \in DOMAIN inits}

\* the 0-based line that defines the label
LineOfLabel(name) == (CHOOSE i \in DOMAIN source : source[i].label = name) - 1

\* the items emitted at or after the label's line in the label's section
ItemsAfter(entry) ==
  {it \in EmittedItems : it.section = entry.section /\ it.line >= LineOfLabel(entry.name)}

\* the first of them: the earliest line, and on that line the lowest address
FirstItemAfter(entry) ==
  CHOOSE it \in ItemsAfter(entry) :
    \A other \in ItemsAfter(entry) :
      \/ it.line < other.line
      \/ it.line = other.line /\ it.address <= other.address

\* C9: in every accepted source, each label's symbol-table address equals the
\* address pass 2 assigns to the first instruction or data item emitted after
\* the label in its section.
C9_LabelNamesNextItem ==
  loadResult = "ok"
  => \A i \in DOMAIN symbolTable :
       ItemsAfter(symbolTable[i]) # {}
       => symbolTable[i].address = FirstItemAfter(symbolTable[i]).address

(* ------------------------- reload specification ------------------------ *)
\* loadProgram, step and reset in any order: a load may follow a load
ReloadItems ==
  { <<Instr("", "ret", <<>>)>>,
    <<Instr("", "mov", <<RegTok("x0"), NumTok(1)>>)>>,
    <<LabelLine("f")>>,
    <<Directive("", "quad", <<NumTok(1)>>)>>,
    <<SectionLine("data"), Directive("", "quad", <<SymTok("u")>>)>> }

ReloadSources == {Flatten(items) : items \in SeqsUpTo(ReloadItems, MaxReloadItems)}

LoadAny == \E lines \in ReloadSources : Load(lines)

NextReload == LoadAny \/ Step \/ Reset

SpecReload == Init /\ [][NextReload]_vars

\* C10: after a load that failed, a step executes no instruction.
C10_FailedLoadNotExecutable ==
  loadResult = "error" => ~Executed

\* the memory a load of the source into an empty memory produces
LoadedMemory ==
  initializeMemoryRegions(<<>>, initialSp,
                          parseProgram(source, symbolTable).dataInitializations, 1).memory

\* C11: right after a successful load every general register is 0, the flags
\* are all false, sp has its initial value and memory holds exactly the bytes
\* of the data initialisations of the loaded source.
C11_LoadResetsState ==
  (loadResult = "ok" /\ stepResult = "none")
  => /\ \A i \in DOMAIN XNames : registers[XNames[i]] = BigInt(0)
     /\ flags = ResetEngine.flags
     /\ registers["sp"] = BigInt(initialSp)
     /\ memory = LoadedMemory

\* the engine right after loading the current source into a fresh engine
LoadedEngine == loadProgram(ResetEngine, source).e

\* C12: a reset of a loaded engine returns it to the state right after the load
\* of its program: registers, flags, memory and cursor are those of the load,
\* and the program is still there for the next step to execute.
C12_ResetReturnsToLoaded ==
  [][(loadResult = "ok" /\ loadResult' = "none")
     => /\ registers' = LoadedEngine.registers
        /\ flags' = LoadedEngine.flags
        /\ memory' = LoadedEngine.memory
        /\ currentInstructionIndex' = LoadedEngine.currentInstructionIndex
        /\ instructions' = LoadedEngine.instructions]_vars

(* ------------------------- steps awaiting input ------------------------- *)
\* the part of builtinGetsSync after the await: the characters before the
\* first newline go to the buffer, then a null byte; [e, err]
RECURSIVE GetsWrite(_, _, _, _, _)
GetsWrite(e, bufPtr, input, j, lineEnd) ==
  LET addr == BigAdd(bufPtr, BigInt(j - 1))
      tooHigh == BigLess(BigInt(STACK_END), addr)
      sp == BigToInt(e.registers["sp"])
  IN IF j > lineEnd \/ tooHigh THEN
       IF tooHigh THEN [e |-> e, err |-> FALSE]
       ELSE LET w == writeMemory(e.memory, sp, BigToInt(addr), BigInt(0), 1, FALSE)
            IN [e |-> [e EXCEPT !.memory = w.memory], err |-> w.err]
     ELSE LET w == writeMemory(e.memory, sp, BigToInt(addr), BigInt(input[j]), 1, FALSE)
          IN IF w.err THEN [e |-> e, err |-> TRUE]
             ELSE GetsWrite([e EXCEPT !.memory = w.memory], bufPtr, input, j + 1, lineEnd)

\* input.indexOf('\n'), or input.length when there is none
LineEnd(input) ==
  IF \E j \in DOMAIN input : input[j] = 10
    THEN (CHOOSE j \in DOMAIN input : input[j] = 10 /\ \A k \in 1..(j - 1) : input[k] # 10) - 1
    ELSE Len(input)

\* charsToRead of builtinFgetsSync: up to and including the newline, at most
\* size - 1 characters
FgetsCount(input, size) ==
  LET n == IF \E j \in DOMAIN input : input[j] = 10 THEN LineEnd(input) + 1 ELSE Len(input)
  IN IF BigLess(BigInt(n), size) THEN n ELSE BigToInt(size) - 1

\* the part of builtinFgetsSync after the await: charsToRead characters go to
\* the buffer, then a null byte; [e, err]
RECURSIVE FgetsWrite(_, _, _, _, _)
FgetsWrite(e, bufPtr, input, i, charsToRead) ==
  LET sp == BigToInt(e.registers["sp"])
      w == writeMemory(e.memory, sp, BigToInt(BigAdd(bufPtr, BigInt(i))),
                       IF i < charsToRead THEN BigInt(input[i + 1]) ELSE BigInt(0), 1, FALSE)
  IN IF w.err THEN [e |-> e, err |-> TRUE]
     ELSE IF i >= charsToRead THEN [e |-> [e EXCEPT !.memory = w.memory], err |-> FALSE]
     ELSE FgetsWrite([e EXCEPT !.memory = w.memory], bufPtr, input, i + 1, charsToRead)

\* a suspended step() once its input has arrived: the rest of builtinGetsSync
\* or builtinFgetsSync, of executeBl, of executeInstruction and of step
resumeStep(e, frame, input) ==
  LET w == IF frame.funcName = "fgets"
             THEN FgetsWrite(e, frame.bufPtr, input, 0, FgetsCount(input, frame.size))
             ELSE GetsWrite(e, frame.bufPtr, input, 1, LineEnd(input))
      e1 == [w.e EXCEPT !.registers = [@ EXCEPT !["x0"] = frame.bufPtr]]
  IN IF w.err THEN [e |-> w.e, result |-> "error"]
     ELSE stepOutcome([e |-> JumpTo(e1, frame.returnAddress), ret |-> TRUE, err |-> FALSE,
                       await |-> FALSE])

\* the lines the input source can deliver, as character codes
Inputs == {<<>>, <<65>>, <<66, 10, 67>>}

\* the input source resolves the promise of one suspended step()
Resume ==
  \E k \in DOMAIN suspended : \E input \in Inputs :
    \E r \in {resumeStep(Engine, suspended[k], input)} :
    /\ SetEngine(r.e)
    /\ stepResult' = r.result
    /\ suspended' = [i \in 1..(Len(suspended) - 1) |->
                       IF i < k THEN suspended[i] ELSE suspended[i + 1]]
    /\ UNCHANGED <<source, loadResult, lastIndex, before>>

AsyncItems ==
  { <<Instr("", "mov", <<RegTok("x0"), BigTok(Big64(0, 32, 0, 0))>>)>>,
    <<Instr("", "bl", <<SymTok("gets")>>)>>,
    <<Instr("", "mov", <<RegTok("x1"), NumTok(1)>>)>>,
    <<Instr("", "ret", <<>>)>> }

AsyncSources == {Flatten(ss) : ss \in SeqsUpTo(AsyncItems, MaxAsyncItems)}

LoadAsync == Fresh /\ \E lines \in AsyncSources : Load(lines)

\* step() is invoked by the run timer every 500 ms whether or not an earlier
\* invocation has returned
NextAsync == LoadAsync \/ StepLoaded \/ Resume \/ (ResetLoaded /\ suspended = <<>>)

SpecAsync == Init /\ [][NextAsync]_vars

\* C13: steps never overlap: while a step() is suspended awaiting the input
\* source no later invocation reads or modifies engine state, so at most one
\* invocation is in progress at any time
C13_StepsNeverOverlap == Len(suspended) <= 1

(* ------------------------ arithmetic and flags -------------------------- *)
\* register values a program can leave behind: the corners of the 32-bit and
\* 64-bit ranges, and small values
AluValues ==
  { BigInt(0), BigInt(1), BigInt(5), BigInt(10),
    Big64(65535, 32767, 0, 0), Big64(0, 32768, 0, 0), Big64(65535, 65535, 0, 0),
    Big64(0, 0, 1, 0),
    Big64(65535, 65535, 65535, 32767), Big64(0, 0, 0, 32768),
    Big64(65535, 65535, 65535, 65535) }

FlagValues ==
  { [N |-> FALSE, Z |-> FALSE, C |-> FALSE, V |-> FALSE],
    [N |-> TRUE, Z |-> TRUE, C |-> TRUE, V |-> TRUE] }

\* the operand shapes of a three-operand instruction and of a comparison
AluOperands ==
  { <<RegTok("x0"), RegTok("x1"), RegTok("x2")>>,
    <<RegTok("w0"), RegTok("w1"), RegTok("w2")>>,
    <<RegTok("x0"), RegTok("x1"), RegTok("w2")>>,
    <<RegTok("x0"), RegTok("w1"), RegTok("x2")>>,
    <<RegTok("x0"), RegTok("x1"), NumTok(1)>> }

\* the operand shapes of the other register instructions
RegOperands ==
  { <<RegTok("x0"), RegTok("x1"), RegTok("x2")>>,
    <<RegTok("w0"), RegTok("w1"), RegTok("w2")>>,
    <<RegTok("x0"), RegTok("x1"), NumTok(1)>> }

\* programs of the instructions that set no flags, and ands: "t" is a label of
\* the data section, "f" a function label
FrameSources ==
  {<<Instr("", op, args)>> :
     op \in {"and", "ands", "orr", "eor", "bic", "lsl", "lsr", "asr", "ror"},
     args \in RegOperands}
  \cup {<<Instr("", op, SubSeq(args, 1, 2))>> : op \in {"mov", "mvn"}, args \in RegOperands}
  \cup {<<Instr("", "mov", <<RegTok("x0"), NumTok(1)>>)>>}
  \cup {<<Instr("", op, <<RegTok(r), RegTok("sp"), NumTok(-16)>>)>> :
          op \in {"ldr", "str"}, r \in {"x1", "w1"}}
  \cup {<<Instr("", op, <<RegTok("x1"), RegTok("x2")>>)>> : op \in {"ldr", "str"}}
  \cup {<<SectionLine("data"), Directive("t", "quad", <<NumTok(1)>>), SectionLine("text"),
           Instr("", op, <<RegTok("x0"), SymTok("t")>>)>> : op \in {"adr", "adrp"}}
  \cup {<<Instr("", op, <<SymTok("f")>>), LabelLine("f"), Instr("", "ret", <<>>)>> :
          op \in {"b", "bl"} \cup ConditionalBranches}
  \cup {<<Instr("", op, <<RegTok("x1"), SymTok("f")>>), LabelLine("f"),
           Instr("", "ret", <<>>)>> : op \in {"cbz", "cbnz"}}
  \cup {<<Instr("", "bl", <<SymTok(fn)>>)>> : fn \in {"putchar", "puts", "gets"}}
  \cup {<<Instr("", "mov", <<RegTok("x0"), RegTok("x2")>>),
           Instr("", "bl", <<SymTok(fn)>>)>> : fn \in {"puts", "gets"}}

\* one-instruction programs of the arithmetic instructions
AluSources ==
  {<<Instr("", op, args)>> : op \in {"add", "adds", "sub", "subs"}, args \in AluOperands}
  \cup {<<Instr("", op, Tail(args))>> : op \in {"cmp", "cmn"}, args \in AluOperands}

\* a simulator whose registers x1 and x2 and whose flags hold what earlier
\* instructions left there
InitWith(values) ==
  /\ \E a \in values : \E b \in values :
       registers = [ResetEngine.registers EXCEPT !["x1"] = a, !["x2"] = b]
  /\ flags \in FlagValues
  /\ memory = ResetEngine.memory
  /\ symbolTable = ResetEngine.symbolTable
  /\ instructions = ResetEngine.instructions
  /\ currentInstructionIndex = ResetEngine.currentInstructionIndex
  /\ entryPointAddress = ResetEngine.entryPointAddress
  /\ entryPointLabel = ResetEngine.entryPointLabel
  /\ entryFunctionEndIndex = ResetEngine.entryFunctionEndIndex
  /\ stackFrames = ResetEngine.stackFrames
  /\ nextFrameId = ResetEngine.nextFrameId
  /\ heapPtr = ResetEngine.heapPtr
  /\ source = <<>>
  /\ loadResult = "none"
  /\ stepResult = "none"
  /\ lastIndex = -1
  /\ before = NoBefore
  /\ suspended = <<>>

InitAlu == InitWith(AluValues)

LoadAlu == Fresh /\ \E lines \in AluSources : Load(lines)

NextAlu == LoadAlu \/ StepLoaded

SpecAlu == InitAlu /\ [][NextAlu]_vars

\* 2^k as a value
BigPow2(k) == [i \in 1..BigLimbs |-> IF i = k \div 16 + 1 THEN Pow2(k % 16) ELSE 0]

\* the 64-bit register behind an operand, as stored
StoredValue(r, reg) ==
  IF reg.type \in {"x", "w"} THEN r[XNames[reg.num + 1]]
  ELSE IF reg.type = "special" THEN (IF reg.name = "lr" THEN r["x30"] ELSE r[reg.name])
  ELSE BigInt(0)

\* the operand width: 32 when an operand register is a w view, else 64
OperandWidth(parsed) ==
  IF parsed.src1.type = "w" \/ parsed.src2.type = "w" THEN 32 ELSE 64

\* the operands of the instruction at the width w, from the registers r
Operand1(parsed, r, w) == BigMask(StoredValue(r, parsed.src1), w)
Operand2(parsed, r, w) ==
  BigMask(IF parsed.hasImmediate THEN parsed.immediate ELSE StoredValue(r, parsed.src2), w)

\* a w-bit pattern read as a signed integer
SignedAt(a, w) == IF BigBit(a, w - 1) THEN BigSub(a, BigPow2(w)) ELSE a

\* the flags of a + b (isAdd) or a - b at the width w
ArithmeticFlags(isAdd, a, b, w) ==
  LET exact == IF isAdd THEN BigAdd(a, b) ELSE BigSub(a, b)
      result == BigMask(exact, w)
      signed == IF isAdd THEN BigAdd(SignedAt(a, w), SignedAt(b, w))
                ELSE BigSub(SignedAt(a, w), SignedAt(b, w))
  IN [N |-> BigBit(result, w - 1),
      Z |-> result = BigInt(0),
      C |-> IF isAdd THEN BigGeq(exact, BigPow2(w)) ELSE BigGeq(a, b),
      V |-> BigLess(signed, BigNeg(BigPow2(w - 1))) \/ BigGeq(signed, BigPow2(w - 1))]

FlagOpcodes == {"adds", "subs", "cmp", "cmn"}

\* C14: after adds, subs, cmp or cmn the flags are those of the sum or the
\* difference of the operands at the operand width (32 when an operand register
\* is a w view, else 64), and cmp and cmn change no general register
C14_FlagsAtOperandWidth ==
  (Executed /\ stepResult # "error" /\ LastOpcode \in FlagOpcodes)
  => LET w == OperandWidth(LastParsed)
     IN /\ flags = ArithmeticFlags(LastOpcode \in {"adds", "cmn"},
                                    Operand1(LastParsed, before.registers, w),
                                    Operand2(LastParsed, before.registers, w), w)
        /\ LastOpcode \in {"cmp", "cmn"}
           => GeneralRegisters(registers) = GeneralRegisters(before.registers)

(* --------------------------- flags as a frame --------------------------- *)
\* register values for the instructions that set no flags: a null pointer, a
\* small value, an address of the data section, and all bits set
FrameValues == {BigInt(0), BigInt(1), BigInt(DATA_START), Big64(65535, 65535, 65535, 65535)}

InitFrame == InitWith(FrameValues)

LoadFrame == Fresh /\ \E lines \in FrameSources \cup AluSources : Load(lines)

NextFrame == LoadFrame \/ StepLoaded \/ Resume

SpecFrame == InitFrame /\ [][NextFrame]_vars

\* the flags all set, as drawn for the start
AllSet == [N |-> TRUE, Z |-> TRUE, C |-> TRUE, V |-> TRUE]

\* C15: a step that executes an opcode other than adds, subs, cmp, cmn and ands
\* leaves N, Z, C and V as they were, and ands leaves C and V as they were
C15_FlagsFrame ==
  Executed
  => /\ LastOpcode \notin FlagOpcodes \cup {"ands"} => flags = before.flags
     /\ LastOpcode = "ands" => flags.C = before.flags.C /\ flags.V = before.flags.V

\* a sub has stored a result that is not zero and Z is still set
C15_Witness ==
  /\ Executed /\ LastOpcode = "sub" /\ stepResult # "error"
  /\ registers["x0"] # before.registers["x0"] /\ registers["x0"] # BigInt(0)
  /\ before.flags = AllSet /\ flags = AllSet

(* ------------------------- add and sub results ------------------------- *)
\* the engine as it was before the last step
EngineBefore == [Engine EXCEPT !.registers = before.registers, !.flags = before.flags,
                               !.memory = before.memory]

\* the last step executed add or sub into a general register
AddedOrSubtracted ==
  /\ Executed /\ stepResult # "error" /\ LastOpcode \in {"add", "sub"}
  /\ LastParsed.dest.type \in {"x", "w"}

\* C17: add and sub store the sum or the difference of their operands masked
\* to the width of the destination (64 bits for x, 32 bits zero-extended for
\* w), the value adds and subs store for the same operands
C17_AddSubMasked ==
  AddedOrSubtracted
  => LET w == IF LastParsed.dest.type = "w" THEN 32 ELSE 64
         a == getRegisterValue(before.registers, LastParsed.src1)
         b == IF LastParsed.hasImmediate THEN LastParsed.immediate
              ELSE getRegisterValue(before.registers, LastParsed.src2)
         exact == IF LastOpcode = "add" THEN BigAdd(a, b) ELSE BigSub(a, b)
         withFlags == executeArithmeticWithFlags(EngineBefore, LastParsed, LastOpcode, TRUE)
     IN /\ StoredValue(registers, LastParsed.dest) = BigMask(exact, w)
        /\ StoredValue(registers, LastParsed.dest)
             = StoredValue(withFlags.e.registers, LastParsed.dest)

(* ------------------------ compare, then branch -------------------------- *)
\* cmp x1, x2 followed by a conditional branch over one instruction
CondSources ==
  {<<Instr("", "cmp", <<RegTok("x1"), RegTok("x2")>>),
     Instr("", op, <<SymTok("f")>>),
     Instr("", "mov", <<RegTok("x3"), NumTok(1)>>),
     LabelLine("f"),
     Instr("", "ret", <<>>)>> : op \in ConditionalBranches}

InitCond == InitWith(AluValues)

LoadCond == Fresh /\ \E lines \in CondSources : Load(lines)

NextCond == LoadCond \/ StepLoaded

SpecCond == InitCond /\ [][NextCond]_vars

\* the relation a condition code stands for after cmp a, b on 64-bit values
Compares(condition, a, b) ==
  LET sa == SignedAt(a, 64)
      sb == SignedAt(b, 64)
  IN CASE condition = "eq" -> a = b
       [] condition = "ne" -> a # b
       [] condition = "lt" -> BigLess(sa, sb)
       [] condition = "le" -> BigLess(sa, sb) \/ sa = sb
       [] condition = "gt" -> BigLess(sb, sa)
       [] condition = "ge" -> BigGeq(sa, sb)
       [] condition = "lo" -> BigLess(a, b)
       [] condition = "ls" -> BigLess(a, b) \/ a = b
       [] condition = "hi" -> BigLess(b, a)
       [] condition = "hs" -> BigGeq(a, b)
       [] condition = "mi" -> BigBit(BigMask(BigSub(a, b), 64), 63)
       [] condition = "pl" -> ~BigBit(BigMask(BigSub(a, b), 64), 63)

\* the last step executed a conditional branch that follows cmp x1, x2
BranchAfterCmp ==
  /\ Executed /\ LastOpcode \in ConditionalBranches
  /\ lastIndex = 1 /\ instructions[1].parsed.opcode = "cmp"
  /\ before.result = "continue"

\* C16: after cmp a, b on 64-bit registers a conditional branch is taken iff
\* its condition holds of a and b (eq/ne equality, lt/le/gt/ge signed,
\* lo/ls/hi/hs unsigned, mi/pl the sign of the 64-bit difference), and a
\* branch that is not taken only advances pc by 4
C16_CompareThenBranch ==
  BranchAfterCmp
  => /\ stepResult # "error"
     /\ IF Compares(ConditionOf(LastOpcode), before.registers["x1"], before.registers["x2"])
          THEN /\ registers["pc"] = LabelAddress(Engine, LastParsed.label)
               /\ currentInstructionIndex = IndexAt(registers["pc"])
          ELSE /\ registers = [before.registers EXCEPT !["pc"] = BigAdd(@, BigInt(4))]
               /\ currentInstructionIndex = lastIndex + 1
     /\ flags = before.flags
     /\ memory = before.memory

\* C16 witness: blt has been taken after comparing the most negative 64-bit
\* value with 1, where the difference overflows and is not negative
C16_Witness ==
  /\ BranchAfterCmp /\ LastOpcode = "blt" /\ stepResult = "continue"
  /\ before.registers["x1"] = Big64(0, 0, 0, 32768)
  /\ before.registers["x2"] = BigInt(1)
  /\ ~flags.N /\ flags.V
  /\ registers["pc"] = LabelAddress(Engine, "f")
  /\ currentInstructionIndex = 3

(* --------------------------------- mov ---------------------------------- *)
\* immediates of mov: 0, 1, -1, -2, 0x10000, 0x12345, 0xFFFF0000, 2^32,
\* 0xFFFFFFFFFFFFF, 0xFFFFFFFFFFFF0000 and 0xFFFF0000FFFFFFFF
Imm10000 == NumTok(65536)
ImmFFFFFFFFFFFFF == BigTok(Big64(65535, 65535, 65535, 15))
MovImmediates ==
  { NumTok(0), NumTok(1), NumTok(-1), NumTok(-2), Imm10000, NumTok(74565),
    BigTok(Big64(0, 65535, 0, 0)), BigTok(Big64(0, 0, 1, 0)), ImmFFFFFFFFFFFFF,
    BigTok(Big64(0, 65535, 65535, 65535)), BigTok(Big64(65535, 65535, 0, 65535)) }

\* programs of mov: an immediate into x0 or w0, the two immediates of the
\* encoding example one after the other, a register or a view into another,
\* and a write through a w view followed by a read of that view
MovSources ==
  {<<Instr("", "mov", <<RegTok(d), imm>>)>> : d \in {"x0", "w0"}, imm \in MovImmediates}
  \cup {<<Instr("", "mov", <<RegTok("x0"), Imm10000>>),
           Instr("", "mov", <<RegTok("x0"), ImmFFFFFFFFFFFFF>>)>>}
  \cup {<<Instr("", "mov", <<RegTok(d), RegTok(r)>>)>> :
          d \in {"x0", "w0", "w3", "w30"}, r \in {"x1", "w1", "w2"}}
  \cup {<<Instr("", "mov", <<RegTok(d), RegTok("x1")>>),
           Instr("", "mov", <<RegTok("x4"), RegTok(d)>>)>> : d \in {"w0", "w30"}}

InitMov == InitWith(AluValues)

LoadMov == Fresh /\ \E lines \in MovSources : Load(lines)

NextMov == LoadMov \/ StepLoaded

SpecMov == InitMov /\ [][NextMov]_vars

\* all the set bits of the chunks c lie inside one chunk
OneChunk(c) == \E k \in DOMAIN c : \A j \in DOMAIN c : j # k => c[j] = 0

\* v mod 2^w, or its complement within w bits, has all its set bits inside one
\* 16-bit chunk
Encodable(v, w) ==
  LET c == SubSeq(BigMask(v, w), 1, w \div 16)
  IN OneChunk(c) \/ OneChunk([k \in DOMAIN c |-> 65535 - c[k]])

\* the last step executed mov with an immediate into a general register
MovedImmediate ==
  /\ Executed /\ LastOpcode = "mov" /\ LastParsed.hasImmediate
  /\ LastParsed.dest.type \in {"x", "w"}

\* C18: mov Rd, #v succeeds exactly when v mod 2^w or its complement within w
\* bits has all its set bits inside one 16-bit chunk (0 and -1 included), and
\* then the register holds v mod 2^w
C18_MovEncodable ==
  MovedImmediate
  => LET w == IF LastParsed.dest.type = "w" THEN 32 ELSE 64
     IN /\ stepResult # "error" <=> Encodable(LastParsed.immediate, w)
        /\ stepResult # "error"
           => StoredValue(registers, LastParsed.dest) = BigMask(LastParsed.immediate, w)

\* C19: mov x0, #0x10000 succeeds and leaves x0 = 0x10000; mov x0,
\* #0xFFFFFFFFFFFFF fails and leaves x0 as it was
C19_MovExamples ==
  (MovedImmediate /\ LastParsed.dest.name = "x0")
  => /\ LastParsed.immediate = BigInt(65536)
        => stepResult # "error" /\ registers["x0"] = BigInt(65536)
     /\ LastParsed.immediate = Big64(65535, 65535, 65535, 15)
        => stepResult = "error" /\ registers["x0"] = before.registers["x0"]

\* C19 witness: after mov x0, #0x10000 has succeeded, mov x0, #0xFFFFFFFFFFFFF
\* has failed with x0 still 0x10000
C19_Witness ==
  /\ MovedImmediate /\ LastParsed.dest.name = "x0" /\ lastIndex = 1
  /\ LastParsed.immediate = Big64(65535, 65535, 65535, 15)
  /\ instructions[1].parsed.immediate = BigInt(65536)
  /\ stepResult = "error"
  /\ before.registers["x0"] = BigInt(65536) /\ registers["x0"] = BigInt(65536)

\* the last step executed mov from a register or a view
MovedRegister ==
  /\ Executed /\ LastOpcode = "mov" /\ ~LastParsed.hasImmediate /\ stepResult # "error"
  /\ LastParsed.dest.type \in {"x", "w"} /\ LastParsed.src.type \in {"x", "w"}

\* the low 32 bits of v extended to 64 bits with copies of bit 31
SignExtended(v) ==
  IF BigBit(v, 31) THEN Big64(v[1], v[2], 65535, 65535) ELSE Big64(v[1], v[2], 0, 0)

\* C20: a write of v through the w view of a register leaves the register
\* equal to v mod 2^32, and a read of the w view returns the low 32 bits of
\* the stored value sign-extended from bit 31 to 64 bits
C20_WViews ==
  MovedRegister
  => LET stored == StoredValue(before.registers, LastParsed.src)
         v == IF LastParsed.src.type = "w" THEN SignExtended(stored) ELSE stored
     IN StoredValue(registers, LastParsed.dest)
          = IF LastParsed.dest.type = "w" THEN BigMask(v, 32) ELSE v

\* C20 witness: all ones was written through a w view, which left 0xFFFFFFFF
\* in the register, and the view was then read into x4 as all ones
C20_Witness ==
  /\ MovedRegister /\ lastIndex = 1
  /\ LastParsed.dest.name = "x4" /\ LastParsed.src.type = "w"
  /\ instructions[1].parsed.dest = LastParsed.src
  /\ registers["x1"] = Big64(65535, 65535, 65535, 65535)
  /\ StoredValue(registers, LastParsed.src) = Big64(65535, 65535, 0, 0)
  /\ registers["x4"] = Big64(65535, 65535, 65535, 65535)

(* --------------------------- loads and stores --------------------------- *)
\* values to store: 0x0123456789ABCDEF (bit 31 set), 0x000000017FFFFFFF and 0
MemData == {Big64(52719, 35243, 17767, 291), Big64(65535, 32767, 1, 0), BigInt(0)}

\* addresses around the ends of the five regions: those from which an access
\* of 8 bytes, of 4 bytes, or of either width leaves the region or just fits
EdgeAddresses ==
  {0, 8, RODATA_START - 8, RODATA_START - 1, RODATA_START,
   STACK_END - 7, STACK_END - 6, STACK_END - 3, STACK_END - 2, STACK_END, STACK_END + 1}
  \cup UNION {{b - 8, b - 7, b - 4, b - 3, b - 1} :
               b \in {DATA_START, BSS_START, HEAP_START, STACK_START}}

\* base addresses: the start of the data section and of the heap, and the
\* addresses around the ends of the regions
MemBases == {BigInt(DATA_START), BigInt(HEAP_START)} \cup {BigInt(a) : a \in EdgeAddresses}

\* register offsets
MemOffsets == {BigInt(0), BigInt(8)}

\* the inline shift of a scaled register offset or of a shifted operand
ShiftToks(kind, amount) == <<SymTok(kind), NumTok(amount)>>

\* programs of ldr and str: a store followed by a 4-byte and an 8-byte load, a
\* 4-byte store over an 8-byte one, an 8-byte store over a 4-byte one, and
\* each addressing form
MemSources ==
  {<<Instr("", "str", <<RegTok("x1"), RegTok("x2")>>),
     Instr("", "ldr", <<RegTok("w4"), RegTok("x2")>>),
     Instr("", "ldr", <<RegTok("x5"), RegTok("x2")>>)>>,
   <<Instr("", "str", <<RegTok("x1"), RegTok("x2")>>),
     Instr("", "str", <<RegTok("w3"), RegTok("x2")>>),
     Instr("", "ldr", <<RegTok("x5"), RegTok("x2")>>)>>,
   <<Instr("", "str", <<RegTok("w1"), RegTok("x2")>>),
     Instr("", "str", <<RegTok("x1"), RegTok("x2")>>),
     Instr("", "ldr", <<RegTok("w4"), RegTok("x2")>>)>>}
  \cup {<<Instr("", "str", <<RegTok("x1"), RegTok("x2")>> \o offset),
           Instr("", "ldr", <<RegTok("x5"), RegTok("x2")>> \o offset)>> :
          offset \in {<<RegTok("x3")>>, <<RegTok("x3")>> \o ShiftToks("lsl", 3),
                      <<NumTok(8)>>, <<NumTok(-8)>>}}

\* a simulator whose registers x1, x2 and x3 hold what earlier instructions
\* left there
InitRegisters(values1, values2, values3) ==
  /\ \E a \in values1 : \E b \in values2 : \E c \in values3 :
       registers = [ResetEngine.registers EXCEPT !["x1"] = a, !["x2"] = b, !["x3"] = c]
  /\ flags = ResetEngine.flags
  /\ memory = ResetEngine.memory
  /\ symbolTable = ResetEngine.symbolTable
  /\ instructions = ResetEngine.instructions
  /\ currentInstructionIndex = ResetEngine.currentInstructionIndex
  /\ entryPointAddress = ResetEngine.entryPointAddress
  /\ entryPointLabel = ResetEngine.entryPointLabel
  /\ entryFunctionEndIndex = ResetEngine.entryFunctionEndIndex
  /\ stackFrames = ResetEngine.stackFrames
  /\ nextFrameId = ResetEngine.nextFrameId
  /\ heapPtr = ResetEngine.heapPtr
  /\ source = <<>>
  /\ loadResult = "none"
  /\ stepResult = "none"
  /\ lastIndex = -1
  /\ before = NoBefore
  /\ suspended = <<>>

InitMem == InitRegisters(MemData, MemBases, MemOffsets)

\* programs of adr and adrp: the label of the first instruction (address 0),
\* of the second instruction (address 4), and of the second item of the data
\* section (0x00200008)
AdrSources ==
  UNION {{<<Instr("f", op, <<RegTok("x1"), SymTok("f")>>)>>,
          <<Instr("", op, <<RegTok("x1"), SymTok("f")>>), Instr("f", "ret", <<>>)>>,
          <<SectionLine("data"), Directive("", "quad", <<NumTok(1)>>),
            Directive("t", "quad", <<NumTok(1)>>), SectionLine("text"),
            Instr("", op, <<RegTok("x1"), SymTok("t")>>)>>} : op \in {"adr", "adrp"}}

LoadMem == Fresh /\ \E lines \in MemSources \cup AdrSources : Load(lines)

NextMem == LoadMem \/ StepLoaded

SpecMem == InitMem /\ [][NextMem]_vars

\* the last step executed ldr or str without error
Transferred(opcode) == Executed /\ LastOpcode = opcode /\ stepResult # "error"

\* the data register of the last ldr or str
DataRegister == IF LastOpcode = "ldr" THEN LastParsed.dest ELSE LastParsed.src

\* the value of the n bytes at address a, lowest first
BytesAt(mem, a, n) ==
  [i \in 1..BigLimbs |->
     IF 2 * i <= n THEN MemoryByte(mem, a + 2 * i - 2) + 256 * MemoryByte(mem, a + 2 * i - 1)
     ELSE 0]

\* mem1 and mem2 hold the same bytes outside [a, a + n - 1]
SameOutside(mem1, mem2, a, n) ==
  \A x \in (DOMAIN mem1 \cup DOMAIN mem2) \ (a..(a + n - 1)) :
    MemoryByte(mem1, x) = MemoryByte(mem2, x)

\* the address of a transfer whose offset is absent: the base register
BaseAddress == BigToInt(before.registers[LastParsed.base.name])

\* a transfer with no offset
NoOffset == LastParsed.offsetType = "immediate" /\ LastParsed.offset = BigInt(0)

\* str stores the low 4 or 8 bytes of the data register and no other byte,
\* and ldr with an x register loads 8 bytes
TransferWidths ==
  /\ (Transferred("str") /\ NoOffset)
     => LET n == IF DataRegister.type = "w" THEN 4 ELSE 8
        IN /\ BytesAt(memory, BaseAddress, n)
                = BigMask(StoredValue(before.registers, DataRegister), 8 * n)
           /\ SameOutside(memory, before.memory, BaseAddress, n)
           /\ registers = [before.registers EXCEPT !["pc"] = registers["pc"]]
  /\ (Transferred("ldr") /\ NoOffset /\ DataRegister.type = "x")
     => /\ StoredValue(registers, DataRegister) = BytesAt(before.memory, BaseAddress, 8)
        /\ memory = before.memory

\* C21 as stated: ldr with a w data register leaves the 64-bit destination
\* holding the 4 bytes read sign-extended from bit 31 to 64 bits; ldr with an
\* x data register reads 8 bytes; str writes 4 or 8 bytes
C21_LoadSignExtends ==
  /\ TransferWidths
  /\ (Transferred("ldr") /\ NoOffset /\ DataRegister.type = "w")
     => StoredValue(registers, DataRegister)
          = SignExtended(BytesAt(before.memory, BaseAddress, 4))

\* C21 amended: ldr with a w data register leaves the 64-bit destination
\* holding the 4 bytes read zero-extended to 64 bits
C21_LoadZeroExtends ==
  /\ TransferWidths
  /\ (Transferred("ldr") /\ NoOffset /\ DataRegister.type = "w")
     => /\ StoredValue(registers, DataRegister) = BytesAt(before.memory, BaseAddress, 4)
        /\ memory = before.memory

\* C21 witness: after 0x0123456789ABCDEF was stored, ldr w4 has read the four
\* bytes 0x89ABCDEF, whose bit 31 is set, and x4 holds 0x0000000089ABCDEF
C21_Witness ==
  /\ Transferred("ldr") /\ DataRegister.name = "w4"
  /\ BytesAt(memory, BaseAddress, 8) = Big64(52719, 35243, 17767, 291)
  /\ registers["x4"] = Big64(52719, 35243, 0, 0)

\* the source line of the last instruction, in a source of instructions only
LastLine == source[lastIndex + 1]

\* the address a transfer is written to access: the base register plus the
\* immediate, the offset register, or the offset register shifted left
WrittenAddress ==
  LET args == LastLine.args
      base == before.registers[args[2].s]
  IN BigToInt(
       IF Len(args) = 2 THEN base
       ELSE IF args[3].t = "num" THEN BigAdd(base, BigInt(args[3].v))
       ELSE IF Len(args) >= 5 THEN BigAdd(base, BigShl(before.registers[args[3].s], args[5].v))
       ELSE BigAdd(base, before.registers[args[3].s]))

\* C22: ldr and str access the base register plus the immediate, plus the
\* offset register, or plus the offset register shifted left by the inline
\* amount of a scaled offset
C22_EffectiveAddress ==
  (/\ Len(source) = Len(instructions) /\ Executed /\ LastOpcode \in {"ldr", "str"}
   /\ stepResult # "error")
  => LET n == IF DataRegister.type = "w" THEN 4 ELSE 8
     IN /\ LastOpcode = "str"
           => /\ BytesAt(memory, WrittenAddress, n)
                   = BigMask(StoredValue(before.registers, DataRegister), 8 * n)
              /\ SameOutside(memory, before.memory, WrittenAddress, n)
        /\ LastOpcode = "ldr"
           => StoredValue(registers, DataRegister)
                = BytesAt(before.memory, WrittenAddress, n)

(* ------------------------ shifts and shifted operands ------------------- *)
\* source values: 0, 1, 0x80000000, 0xFFFFFFFF, 0x0123456789ABCDEF, 2^63 and
\* 2^64 - 1
ShiftValues ==
  { BigInt(0), BigInt(1), Big64(0, 32768, 0, 0), Big64(65535, 65535, 0, 0),
    Big64(52719, 35243, 17767, 291), Big64(0, 0, 0, 32768),
    Big64(65535, 65535, 65535, 65535) }

\* shift counts held in a register: 0, 1, 4, 31, 32, 33, 63, 64, 65 and 2^32 + 1
ShiftCounts ==
  {BigInt(n) : n \in {0, 1, 4, 31, 32, 33, 63, 64, 65}} \cup {Big64(1, 0, 1, 0)}

\* second operands of the logical instructions: 8 and 0x8000000000000001
SecondOperands == {BigInt(8), Big64(1, 0, 0, 32768)}

\* one-instruction programs: a shift by a register or by an immediate below
\* the width, and a logical instruction with and without an inline shift
ShiftSources ==
  {<<Instr("", op, args)>> :
     op \in {"lsl", "lsr", "asr", "ror"},
     args \in {<<RegTok("x0"), RegTok("x1"), RegTok("x2")>>,
               <<RegTok("w0"), RegTok("w1"), RegTok("w2")>>}
              \cup {<<RegTok("x0"), RegTok("x1"), NumTok(n)>> : n \in {1, 4, 63}}
              \cup {<<RegTok("w0"), RegTok("w1"), NumTok(n)>> : n \in {1, 31}}}
  \cup {<<Instr("", op, <<RegTok("x0"), RegTok("x1"), RegTok("x3")>> \o shift)>> :
          op \in {"and", "ands", "orr", "eor", "bic"},
          shift \in {<<>>, ShiftToks("lsl", 3), ShiftToks("lsr", 3), ShiftToks("asr", 3)}}

InitShift == InitRegisters(ShiftValues, ShiftCounts, SecondOperands)

LoadShift == Fresh /\ \E lines \in ShiftSources : Load(lines)

NextShift == LoadShift \/ StepLoaded

SpecShift == InitShift /\ [][NextShift]_vars

\* v shifted at the width w: lsl and lsr fill with zeros, asr replicates bit
\* w - 1, ror rotates within the w bits; the count n is below w
ShiftedAt(kind, v, n, w) ==
  LET low == BigMask(v, w)
  IN IF n = 0 THEN low
     ELSE CASE kind = "lsl" -> BigMask(BigShl(low, n), w)
            [] kind = "lsr" -> BigShr(low, n)
            [] kind = "asr" -> BigMask(BigShr(SignedAt(low, w), n), w)
            [] kind = "ror" -> BigMask(BigOr(BigShr(low, n), BigShl(low, w - n)), w)

\* a & b, a | b, a ^ b and a & ~b at 64 bits
Combined(opcode, a, b) ==
  CASE opcode \in {"and", "ands"} -> BigMask(BigAnd(a, b), 64)
    [] opcode = "orr" -> BigMask(BigOr(a, b), 64)
    [] opcode = "eor" -> BigMask(BigXor(a, b), 64)
    [] opcode = "bic" -> BigMask(BigAnd(a, BigNot(b)), 64)

\* the last step executed a logical instruction written with an inline shift
\* on its second register
ShiftedOperand ==
  /\ Executed /\ stepResult # "error" /\ Len(source) = Len(instructions)
  /\ LastOpcode \in {"and", "ands", "orr", "eor", "bic"}
  /\ Len(LastLine.args) = 5

\* C23: a logical instruction written with an inline shift on its second
\* register combines the first operand with the second register shifted by
\* the stated amount and kind
C23_InlineShiftApplied ==
  ShiftedOperand
  => registers[LastLine.args[1].s]
       = Combined(LastOpcode, before.registers[LastLine.args[2].s],
                  ShiftedAt(LastLine.args[4].s, before.registers[LastLine.args[3].s],
                            LastLine.args[5].v, 64))

\* the last step executed a shift whose destination and source have the same
\* width
Shifted ==
  /\ Executed /\ stepResult # "error"
  /\ LastOpcode \in {"lsl", "lsr", "asr", "ror"}
  /\ LastParsed.dest.type \in {"x", "w"}
  /\ LastParsed.src1.type = LastParsed.dest.type

\* the shift count of the last shift: the immediate, or the count register
\* modulo the width w
ShiftCount(w) ==
  IF LastParsed.hasImmediate THEN BigToInt(LastParsed.immediate)
  ELSE StoredValue(before.registers, LastParsed.src2)[1] % w

\* C24: lsl, lsr, asr and ror leave in the destination the shift or rotate,
\* at the width w of the registers, of the low w bits of the source,
\* zero-extended to 64 bits; a register count is taken modulo w
C24_ShiftAtWidth ==
  Shifted
  => LET w == IF LastParsed.dest.type = "w" THEN 32 ELSE 64
     IN StoredValue(registers, LastParsed.dest)
          = ShiftedAt(LastOpcode, StoredValue(before.registers, LastParsed.src1),
                      ShiftCount(w), w)

\* the value adr or adrp is to load: the address of the label, for adrp with
\* its low 12 bits cleared
AddressToLoad ==
  LET address == BigInt(SymGet(symbolTable, LastParsed.label).address)
  IN IF LastOpcode = "adr" THEN address
     ELSE [address EXCEPT ![1] = @ - (@ % 4096)]

\* C25: adr loads the address of the label and adrp that address with its low
\* 12 bits cleared, and each fails and leaves the destination unchanged when
\* the value to load is below 0x00100000, 0 included
C25_AdrZeroPage ==
  (Executed /\ LastOpcode \in {"adr", "adrp"} /\ SymHas(symbolTable, LastParsed.label))
  => IF BigLess(AddressToLoad, BigInt(RODATA_START))
       THEN stepResult = "error" /\ registers = before.registers
       ELSE /\ stepResult # "error"
            /\ StoredValue(registers, LastParsed.dest) = AddressToLoad

(* ----------------------------- memory checks ---------------------------- *)
\* the bytes [a, a + n - 1] lie in one of the five regions
Contained(a, n) ==
  \E k \in DOMAIN RegionKeys :
    a >= memoryLayout[RegionKeys[k]].start /\ a + n - 1 <= memoryLayout[RegionKeys[k]].end

\* the last step executed ldr or str written without a scaled offset
Accessed ==
  /\ Executed /\ LastOpcode \in {"ldr", "str"}
  /\ Len(source) = Len(instructions) /\ Len(LastLine.args) < 5

\* C26: a read or write of width 1, 2, 4 or 8 whose bytes do not lie in one
\* region fails, whatever the address, and an ldr or str that so fails
\* changes no memory byte and no register
C26_OneRegion ==
  /\ \A n \in {1, 2, 4, 8} : \A a \in EdgeAddresses \cup {-8, DATA_START} :
       \A isWrite \in BOOLEAN :
         ~Contained(a, n)
         => validateMemoryAccessThrows(BigToInt(registers["sp"]), a, n, isWrite)
  /\ (Accessed /\ ~Contained(WrittenAddress, IF DataRegister.type = "w" THEN 4 ELSE 8))
     => /\ stepResult = "error"
        /\ memory = before.memory
        /\ registers = before.registers

\* C26 witness: after a store into the bss section, an 8-byte str at four
\* bytes below the heap failed and left memory as it was
C26_Witness ==
  /\ Accessed /\ LastOpcode = "str" /\ DataRegister.type = "x"
  /\ WrittenAddress = HEAP_START - 4
  /\ stepResult = "error"
  /\ before.memory # <<>> /\ memory = before.memory

(* --------------------------- buffers and rodata -------------------------- *)
\* validateMemoryAccess(address, size, isWrite): the error it throws, "" when
\* it returns
validateMemoryAccessError(sp, addr, size, isWrite) ==
  LET region == getMemoryRegion(addr) IN
  IF addr = 0 \/ (addr < RODATA_START /\ addr > 0) THEN "Zero page access forbidden"
  ELSE IF addr < RODATA_START \/ addr + (size - 1) > STACK_END
    THEN "Memory access out of bounds"
  ELSE IF region = "" THEN "not in any memory region"
  ELSE IF addr + (size - 1) > memoryLayout[region].end
    THEN "Memory access crosses region boundary"
  ELSE IF isWrite /\ memoryLayout[region].readonly THEN "Write to read-only region"
  ELSE IF /\ isWrite
          /\ sp < STACK_END /\ sp >= STACK_START
          /\ addr >= HEAP_START /\ addr <= HEAP_END
          /\ sp < HEAP_END
    THEN "Stack/heap collision"
  ELSE IF /\ isWrite
          /\ addr >= HEAP_START /\ addr <= HEAP_END
          /\ sp < HEAP_END /\ sp >= STACK_START
    THEN "Stack/heap collision"
  ELSE ""

\* where x2 points when a buffer is handed to gets, fgets or str
BufPointers ==
  {BigInt(a) : a \in {0, RODATA_START - 1, RODATA_START, RODATA_START + 4, RODATA_END - 3,
                      RODATA_END, DATA_START, HEAP_START, STACK_END - 1, STACK_END}}

\* what x1 holds: the size handed to fgets, the value stored by str
BufSizes == {BigInt(0), BigInt(1), BigInt(2), BigInt(3), Big64(52719, 35243, 17767, 291)}

InitBuf == InitRegisters(BufSizes, BufPointers, {BigInt(0)})

\* two bytes of read-only data, then the text
RodataHeader ==
  <<SectionLine("rodata"), Directive("", "quad", <<NumTok(258)>>), SectionLine("text")>>

BufSources ==
  {RodataHeader \o <<Instr("", "mov", <<RegTok("x0"), RegTok("x2")>>),
                     Instr("", "bl", <<SymTok(f)>>),
                     Instr("", "ldr", <<RegTok("x5"), RegTok("x2")>>)>> : f \in {"gets", "fgets"}}
  \cup {RodataHeader \o <<Instr("", "str", <<RegTok("x1"), RegTok("x2")>>),
                          Instr("", "str", <<RegTok("w1"), RegTok("x2")>>)>>}

LoadBuf == Fresh /\ \E lines \in BufSources : Load(lines)

NextBuf == LoadBuf \/ StepLoaded \/ Resume

SpecBuf == InitBuf /\ [][NextBuf]_vars

InRodata(a) == a >= RODATA_START /\ a <= RODATA_END

\* the suspended invocations one of which this transition resumes
Resumed ==
  {suspended[k] : k \in {j \in DOMAIN suspended :
      suspended' = [i \in 1..(Len(suspended) - 1) |->
                      IF i < j THEN suspended[i] ELSE suspended[i + 1]]}}

\* a step or a resumption: the program stays the loaded one
Stepped == loadResult = "ok" /\ loadResult' = "ok"

\* C27: once a program is loaded no step changes a byte of rodata: a write
\* that lies in rodata is refused as a write to a read-only region, and a str
\* to, or a gets or fgets into, a rodata address fails.
C27_RodataImmutable ==
  [][/\ \A n \in {1, 2, 4, 8} : \A a \in {RODATA_START, RODATA_START + 4, RODATA_END + 1 - n} :
          validateMemoryAccessError(BigToInt(registers["sp"]), a, n, TRUE)
            = "Write to read-only region"
     /\ Stepped
        => /\ \A a \in (DOMAIN memory) \cup (DOMAIN memory') :
                InRodata(a) => MemoryByte(memory', a) = MemoryByte(memory, a)
           /\ \A frame \in Resumed :
                InRodata(BigToInt(frame.bufPtr)) => stepResult' = "error"
           /\ (/\ currentInstructionIndex < Len(instructions)
               /\ instructions[currentInstructionIndex + 1].parsed.opcode = "str"
               /\ Resumed = {}
               /\ InRodata(BigToInt(registers["x2"])))
              => stepResult' = "error"]_vars

\* gets has been resumed with its buffer at the first byte of rodata: the
\* step failed and the byte loaded there is still in place
C27_Witness ==
  /\ Executed /\ LastOpcode = "bl" /\ LastParsed.label = "gets"
  /\ suspended = <<>>
  /\ registers["x0"] = BigInt(RODATA_START)
  /\ stepResult = "error"
  /\ MemoryByte(memory, RODATA_START) = 2 /\ MemoryByte(memory, RODATA_START + 1) = 1

\* C28: a step that fails changes no byte of memory, whether it is a str or a
\* gets or fgets storing several bytes into the caller's buffer.
C28_NoPartialWrite ==
  [][(Stepped /\ stepResult' = "error")
     => \A a \in (DOMAIN memory) \cup (DOMAIN memory') :
          MemoryByte(memory', a) = MemoryByte(memory, a)]_vars

(* ------------------------------ the stack -------------------------------- *)
\* x1: a value to store or a base for sp; x2: where str writes; x3: how far sp
\* is moved
StackData == {BigInt(8), BigInt(STACK_START + 16), Big64(52719, 35243, 17767, 291)}
StackTargets ==
  {BigInt(a) : a \in {HEAP_START, HEAP_END - 65535, HEAP_END - 65527, HEAP_END - 7,
                      STACK_START, STACK_END - 15}}
StackAmounts == {BigInt(16), BigInt(24), BigInt(65536), BigInt(131072)}

InitStack == InitRegisters(StackData, StackTargets, StackAmounts)

StackSources ==
  {<<Instr("", "sub", <<RegTok("sp"), RegTok("sp"), RegTok("x3")>>),
     Instr("", "str", <<RegTok("x1"), RegTok("x2")>>),
     Instr("", "add", <<RegTok("sp"), RegTok("sp"), RegTok("x3")>>)>>}
  \cup {<<Instr("", "sub", <<RegTok("sp"), RegTok("sp"), NumTok(32)>>),
           Instr("", op, <<RegTok("sp"), RegTok("sp"), NumTok(n)>>),
           Instr("", op, <<RegTok("sp"), RegTok("sp"), RegTok("x3")>>)>> :
          op \in {"add", "sub", "adds", "subs"}, n \in {16, 8, -16}}
  \cup {<<Instr("", op, <<RegTok("sp"), RegTok("x1"), NumTok(16)>>),
           Instr("", "sub", <<RegTok("sp"), RegTok("sp"), NumTok(16)>>)>> :
          op \in {"add", "sub", "adds", "subs"}}

LoadStack == Fresh /\ \E lines \in StackSources : Load(lines)

NextStack == LoadStack \/ StepLoaded

SpecStack == InitStack /\ [][NextStack]_vars

\* C29: a str into the heap fails when sp has come down to the address it
\* writes or below it.
C29_StackHeapCollision ==
  (/\ Executed /\ LastOpcode = "str"
   /\ WrittenAddress >= HEAP_START /\ WrittenAddress + 7 <= HEAP_END
   /\ BigToInt(before.registers["sp"]) <= WrittenAddress)
  => stepResult = "error"

\* the instruction the next step executes writes sp by add, sub, adds or subs
NextInstr == instructions[currentInstructionIndex + 1].parsed
MovesSp ==
  /\ Stepped /\ currentInstructionIndex < Len(instructions)
  /\ NextInstr.opcode \in {"add", "sub", "adds", "subs"}
  /\ NextInstr.dest # NullReg /\ IsStackOp(NextInstr.dest)

SpOperand ==
  IF NextInstr.hasImmediate THEN NextInstr.immediate
  ELSE getRegisterValue(registers, NextInstr.src2)

SpResult ==
  IF NextInstr.opcode \in {"add", "adds"}
    THEN BigAdd(getRegisterValue(registers, NextInstr.src1), SpOperand)
    ELSE BigSub(getRegisterValue(registers, NextInstr.src1), SpOperand)

\* C30: an add, sub, adds or subs to sp with an operand that is not a
\* multiple of 16, or with a result that is not, fails; when it fails sp and
\* the stack-frame list are as before; and sp is a multiple of 16 throughout.
C30_SpAligned ==
  /\ [](registers["sp"][1] % 16 = 0)
  /\ [][MovesSp
        => /\ (SpOperand[1] % 16 # 0 \/ SpResult[1] % 16 # 0) => stepResult' = "error"
           /\ stepResult' = "error"
              => /\ registers'["sp"] = registers["sp"]
                 /\ stackFrames' = stackFrames]_vars

\* with one frame on the list a sub of 8 from sp has failed: sp and the frame
\* are still those of the sub of 32 before it
C30_Witness ==
  /\ Executed /\ LastOpcode = "sub" /\ IsStackOp(LastParsed.dest)
  /\ LastParsed.hasImmediate /\ LastParsed.immediate = BigInt(8)
  /\ stepResult = "error"
  /\ registers["sp"] = BigInt(initialSp - 32)
  /\ stackFrames = <<[id |-> 1, sp |-> initialSp - 32, size |-> 32, top |-> initialSp]>>

(* ----------------------------- stack frames ------------------------------ *)
\* sub sp, sp, #n and add sp, sp, #n
SubSp(n) == Instr("", "sub", <<RegTok("sp"), RegTok("sp"), NumTok(n)>>)
AddSp(n) == Instr("", "add", <<RegTok("sp"), RegTok("sp"), NumTok(n)>>)

PushItems == {SubSp(16), SubSp(32), SubSp(65536), AddSp(16), AddSp(32)}

PushSources == SeqsUpTo(PushItems, MaxPushItems)

LoadPush == Fresh /\ \E lines \in PushSources : Load(lines)

\* a step, followed as long as sp is not far above its initial value
StepPush == StepLoaded /\ BigToInt(registers'["sp"]) <= initialSp + 32 * MaxSpRise

NextPush == LoadPush \/ StepPush

SpecPush == Init /\ [][NextPush]_vars

\* the engine after sub sp, sp, #n and then add sp, sp, #n are executed from
\* the current state
AfterSub(n) == executeSub(Engine, parseInstruction(SubSp(n)).parsed, FALSE)
AfterPair(n) == executeAdd(AfterSub(n).e, parseInstruction(AddSp(n)).parsed)

PairSizes == {16, 32}

\* C31: sub sp, sp, #n followed by add sp, sp, #n gives sp its value of before
\* the pair and leaves the stack-frame list as it was before the pair: the same
\* frames, in the same order.
C31_PairRestores ==
  \A n \in PairSizes :
    (~AfterSub(n).err /\ ~AfterPair(n).err)
    => /\ AfterPair(n).e.registers["sp"] = registers["sp"]
       /\ AfterPair(n).e.stackFrames = stackFrames

\* the next step executes add sp, sp, #n and no frame has the base address and
\* the size that it frees
AddsUnmatched ==
  /\ MovesSp /\ NextInstr.opcode = "add" /\ NextInstr.hasImmediate
  /\ stackFrames # <<>>
  /\ \A i \in DOMAIN stackFrames :
       ~(/\ stackFrames[i].sp = BigToInt(registers["sp"])
         /\ stackFrames[i].size = NumberOf(NextInstr.immediate))

\* the frame lowest in memory, the latest created of them
LowestFrame ==
  CHOOSE i \in DOMAIN stackFrames :
    \A j \in DOMAIN stackFrames :
      \/ stackFrames[j].sp > stackFrames[i].sp
      \/ stackFrames[j].sp = stackFrames[i].sp /\ stackFrames[j].id <= stackFrames[i].id

\* C32: an add to sp that matches no frame by base address and size removes
\* the frame with the lowest sp and keeps every other frame.
C32_LifoRemoval ==
  [][(AddsUnmatched /\ stepResult' # "error")
     => stackFrames' = [j \in 1..(Len(stackFrames) - 1) |->
                          IF j < LowestFrame THEN stackFrames[j] ELSE stackFrames[j + 1]]]_vars

RECURSIVE SumSizes(_)
SumSizes(frames) == IF frames = <<>> THEN 0 ELSE Head(frames).size + SumSizes(Tail(frames))

\* C39: the frames of the list cover disjoint address ranges, their sizes sum
\* to the distance of sp from its initial value, and the list is empty when sp
\* has its initial value.
C39_FramesAccountForStack ==
  /\ \A i, j \in DOMAIN stackFrames :
       i # j => \/ stackFrames[i].top <= stackFrames[j].sp
                \/ stackFrames[j].top <= stackFrames[i].sp
  /\ SumSizes(stackFrames) = initialSp - BigToInt(registers["sp"])
  /\ registers["sp"] = BigInt(initialSp) => stackFrames = <<>>

\* C40: a sub that would take sp below the start of the stack region fails,
\* an add that would take it above its initial value fails, and sp stays
\* between the two.
C40_SpInStack ==
  /\ [](/\ BigToInt(registers["sp"]) >= STACK_START
        /\ BigToInt(registers["sp"]) <= initialSp)
  /\ [][(/\ MovesSp
         /\ \/ BigIsNeg(BigSub(SpResult, BigInt(STACK_START)))
            \/ BigLess(BigInt(initialSp), SpResult))
        => stepResult' = "error"]_vars

(* ----------------------------- entry point ------------------------------- *)
EntryItems ==
  { <<GlobalLine(<<"main">>)>>,
    <<GlobalLine(<<"_start">>)>>,
    <<LabelLine("_start"), Instr("", "mov", <<RegTok("x0"), NumTok(1)>>)>>,
    <<LabelLine("main"), Instr("", "mov", <<RegTok("x1"), NumTok(1)>>)>>,
    <<Instr("", "mov", <<RegTok("x2"), NumTok(1)>>)>> }

EntrySources == {Flatten(items) : items \in SeqsUpTo(EntryItems, MaxEntryItems)}

LoadEntry == Fresh /\ \E lines \in EntrySources : Load(lines)

NextEntry == LoadEntry \/ StepLoaded

SpecEntry == Init /\ [][NextEntry]_vars

\* the lines of the source that define the label
DefinedAt(name) == {i \in DOMAIN source : source[i].kind = "empty" /\ source[i].label = name}

\* the number of instructions of the source before line i
InstructionsBefore(i) == Cardinality({j \in 1..(i - 1) : source[j].kind = "instr"})

\* the label the load is to start at: _start, else main, else none
StartLabel ==
  IF DefinedAt("_start") # {} THEN "_start"
  ELSE IF DefinedAt("main") # {} THEN "main"
  ELSE NoLabel

\* the index of the instruction the load is to start at
StartIndex ==
  IF StartLabel = NoLabel THEN 0
  ELSE InstructionsBefore(CHOOSE i \in DefinedAt(StartLabel) : TRUE)

\* a source just loaded that defines _start and main at most once
JustLoaded ==
  /\ loadResult = "ok" /\ stepResult = "none"
  /\ instructions # <<>>
  /\ Cardinality(DefinedAt("_start")) <= 1 /\ Cardinality(DefinedAt("main")) <= 1

\* C33: after a load the cursor and pc are at the instruction of _start when
\* the source defines _start, else at that of main when it defines main, else
\* at the first instruction, whatever the source declares global.
C33_EntryPoint ==
  JustLoaded
  => /\ currentInstructionIndex = StartIndex
     /\ registers["pc"] = BigInt(instructions[StartIndex + 1].address)

(* ------------------------------- returns --------------------------------- *)
\* x1 and x2: the addresses a ret may name
RetTargets == {BigInt(a) : a \in {0, 4, 8, 12, 16}}

InitRet == InitRegisters(RetTargets, RetTargets, {BigInt(0)})

\* programs without _start or main: no ret of theirs is in an entry function
RetSources ==
  UNION {{<<Instr("", "ret", operand),
            Instr("", "mov", <<RegTok("x0"), NumTok(1)>>),
            Instr("", "mov", <<RegTok("x0"), NumTok(2)>>)>>,
          <<Instr("", "bl", <<SymTok("f")>>),
            Instr("", "mov", <<RegTok("x0"), NumTok(1)>>),
            Instr("", "mov", <<RegTok("x0"), NumTok(2)>>),
            LabelLine("f"),
            Instr("", "ret", operand)>>} :
         operand \in {<<>>, <<RegTok("x1")>>, <<RegTok("x2")>>}}

LoadRet == Fresh /\ \E lines \in RetSources : Load(lines)

NextRet == LoadRet \/ StepLoaded

SpecRet == InitRet /\ [][NextRet]_vars

\* the ret line of the source
RetLine == source[CHOOSE i \in DOMAIN source : source[i].name = "ret"]

\* the address the ret is written to return to
RetTarget ==
  IF RetLine.args = <<>> THEN before.registers["x30"]
  ELSE before.registers[RetLine.args[1].s]

\* C34: outside the entry function a ret that names a register goes to the
\* address in that register, a ret without operand to the address in x30.
C34_RetNamedRegister ==
  (/\ Executed /\ LastOpcode = "ret"
   /\ RetTarget # BigInt(0)
   /\ \E i \in DOMAIN instructions : BigInt(instructions[i].address) = RetTarget)
  => /\ stepResult = "continue"
     /\ registers["pc"] = RetTarget
     /\ BigInt(instructions[currentInstructionIndex + 1].address) = RetTarget

(* ------------------------------- the heap -------------------------------- *)
\* an allocation that ignores the upper bound of the heap
allocateHeapUnbounded(e, size) ==
  [e |-> [e EXCEPT !.heapPtr = BigAdd(e.heapPtr, BigInt(size))], err |-> FALSE, ptr |-> e.heapPtr]

\* allocateHeap(size): [e, err, ptr]
allocateHeap(e, size) ==
  LET oldPtr == e.heapPtr
      newPtr == BigAdd(oldPtr, BigInt(size))
      currentSP == e.registers["sp"]
  IN IF BigLess(BigInt(HEAP_END), newPtr) THEN [e |-> e, err |-> TRUE, ptr |-> oldPtr]
     ELSE IF /\ BigLess(currentSP, BigInt(STACK_END)) /\ BigGeq(currentSP, BigInt(STACK_START))
             /\ BigGeq(newPtr, currentSP)
       THEN [e |-> e, err |-> TRUE, ptr |-> oldPtr]
     ELSE [e |-> [e EXCEPT !.heapPtr = newPtr], err |-> FALSE, ptr |-> oldPtr]

\* the sizes asked for: a byte, large blocks, the whole heap but one byte, the
\* whole heap
HeapSizes == {1, 67108864, 100663296, HEAP_END - HEAP_START, HEAP_END - HEAP_START + 1}

\* the host calls allocateHeap(size)
AllocateHeap ==
  \E size \in HeapSizes : \E r \in {allocateHeap(Engine, size)} :
    /\ size = 1 => \/ BigToInt(heapPtr) < HEAP_START + MaxSmallAllocs
                   \/ BigToInt(heapPtr) > HEAP_END - MaxSmallAllocs
    /\ SetEngine(r.e)
    /\ UNCHANGED <<source, loadResult, stepResult, lastIndex, before, suspended>>

HeapSources ==
  {<<Instr("", "sub", <<RegTok("sp"), RegTok("sp"), RegTok("x3")>>),
     Instr("", "add", <<RegTok("sp"), RegTok("sp"), RegTok("x3")>>)>>}

InitHeap == InitRegisters({BigInt(0)}, {BigInt(0)}, StackAmounts)

LoadHeap == Fresh /\ \E lines \in HeapSources : Load(lines)

NextHeap == LoadHeap \/ StepLoaded \/ AllocateHeap

SpecHeap == InitHeap /\ [][NextHeap]_vars

\* C35: the heap cursor never decreases and stays in the heap region; a call
\* of allocateHeap that succeeds returns the cursor of before the call and
\* moves the cursor up by the size, so that the blocks returned are disjoint;
\* a call that fails leaves the cursor where it was.
C35_HeapCursor ==
  [][/\ BigGeq(heapPtr', heapPtr)
     /\ BigGeq(heapPtr', BigInt(HEAP_START)) /\ BigGeq(BigInt(HEAP_END), heapPtr')
     /\ \A size \in HeapSizes :
          LET r == allocateHeap(Engine, size)
          IN /\ r.err => r.e.heapPtr = heapPtr
             /\ ~r.err => /\ r.ptr = heapPtr
                           /\ r.e.heapPtr = BigAdd(heapPtr, BigInt(size))
             /\ BigLess(BigInt(HEAP_END), BigAdd(heapPtr, BigInt(size))) => r.err]_vars

\* allocations have reached the last byte of the heap
C35_Witness ==
  /\ heapPtr = BigInt(HEAP_END)
  /\ allocateHeap(Engine, 1).err
  /\ loadResult = "ok"

(* --------------------------- a straight program --------------------------- *)
\* the immediates of the two mov instructions
SumOperands == {1, 2, 3, 5, 7}

\* mov x0, #a / mov x1, #b / add x0, x0, x1, without any label
SumSource(a, b) ==
  <<Instr("", "mov", <<RegTok("x0"), NumTok(a)>>),
    Instr("", "mov", <<RegTok("x1"), NumTok(b)>>),
    Instr("", "add", <<RegTok("x0"), RegTok("x0"), RegTok("x1")>>)>>

LoadSum == Fresh /\ \E a, b \in SumOperands : Load(SumSource(a, b))

NextSum == LoadSum \/ StepLoaded

SpecSum == Init /\ [][NextSum]_vars

\* the last step executed the add that ends the program
AddDone == Executed /\ lastIndex = 2

\* C36: the three steps of mov x0, #5 / mov x1, #3 / add x0, x0, x1 (and of
\* the same program with other immediates) report no halt and leave the sum in
\* x0 and the second immediate in x1; the step after them reports the halt,
\* the instructions being exhausted.
C36_ThreeStepsThenHalt ==
  /\ [](Executed => stepResult = "continue")
  /\ [](AddDone => /\ registers["x1"] = BigInt(source[2].args[2].v)
                   /\ registers["x0"] = BigInt(source[1].args[2].v + source[2].args[2].v))
  /\ [][(AddDone /\ Stepped) => (stepResult' = "halt" /\ registers' = registers)]_vars

(* --------------------------- register values ----------------------------- *)
\* 0 <= value < 2^64
InRange64(value) == \A i \in 5..Len(value) : value[i] = 0

\* C37: every general register, sp and pc holds a value from 0 to 2^64 - 1.
C37_Registers64Bit ==
  \A r \in RegisterNames : InRange64(registers[r])
(* ---------------------------- failing steps ----------------------------- *)
\* a call of step() on a loaded program, as opposed to the resumption of a
\* suspended one
StepTaken ==
  /\ Stepped
  /\ lastIndex' = currentInstructionIndex
  /\ before' = [registers |-> registers, flags |-> flags, memory |-> memory,
                cursor |-> currentInstructionIndex, result |-> stepResult]

\* the registers of the claim: every general register and sp
KeptRegisters == RegisterNames \ {"pc"}

\* C38: a step that fails with a fatal error leaves every general register
\* including register 30, sp, the flags, memory and the stack-frame list as
\* they were before the step, and the cursor on the failing instruction.
C38_FailedStepKeepsState ==
  [][(StepTaken /\ stepResult' = "error") =>
       /\ \A r \in KeptRegisters : registers'[r] = registers[r]
       /\ flags' = flags
       /\ memory' = memory
       /\ stackFrames' = stackFrames
       /\ currentInstructionIndex' = currentInstructionIndex]_vars
====
